---- MODULE Spec2Model ----
(***************************************************************************)
(* Model of the gb-rs Game Boy emulator core: memory.rs (flat 64 KiB       *)
(* memory), utils.rs (byte / word helpers), cpu.rs (instruction decoder,   *)
(* register file, CPU::execute, CPU::handle_interrupts), clock.rs (divider *)
(* and timer), joypad.rs (joypad register) and gb.rs (the emulator loop).  *)
(***************************************************************************)
EXTENDS Integers, Sequences, FiniteSets, TLC

VARIABLES
    cpu,              \* struct CPU: a b c d e h l f sp pc ime
    memory,           \* struct Memory: the non-zero cells of [Byte; 0x10000]
    clock,            \* struct Clock: div_counter, timer_counter
    joypad,           \* struct Joypad: last_key
    graphics,         \* Option<Graphics>: line_y, last_timestamp, bg_fifo, last_ppu_mode
    dbg,              \* struct Debugger: pause, step, breakpoints
    overflow_checks,  \* build profile: TRUE = arithmetic overflow panics (debug)
    status,           \* "running", or "panicked" once a panic! / unwrap aborted the process
    last,             \* observation of the last operation: its kind, inputs and pre-state
    steps             \* number of operations performed so far

vars == <<cpu, memory, clock, joypad, graphics, dbg, overflow_checks, status, last,
          steps>>

----------------------------------------------------------------------------
(* Bounds of the model *)

MaxSteps == 3

----------------------------------------------------------------------------
(* utils.rs: Byte = u8, Word = Address = u16, SignedByte = i8 *)

Byte == 0..255
Word == 0..65535
MEMORY_SIZE == 65536

RECURSIVE BitAnd(_, _)
BitAnd(x, y) ==
    IF x = 0 \/ y = 0 THEN 0
    ELSE (x % 2) * (y % 2) + 2 * BitAnd(x \div 2, y \div 2)

RECURSIVE BitOr(_, _)
BitOr(x, y) ==
    IF x = 0 THEN y
    ELSE IF y = 0 THEN x
    ELSE (IF x % 2 = 1 \/ y % 2 = 1 THEN 1 ELSE 0) + 2 * BitOr(x \div 2, y \div 2)

RECURSIVE BitXor(_, _)
BitXor(x, y) ==
    IF x = 0 THEN y
    ELSE IF y = 0 THEN x
    ELSE (((x % 2) + (y % 2)) % 2) + 2 * BitXor(x \div 2, y \div 2)

\* !flag on a u8
BitNot8(x) == 255 - x

\* x >> k and (x << k) truncated to u8
Shr(x, k) == x \div (2 ^ k)

\* ByteOP::mask
mask(byte, m) == BitAnd(byte, m)

\* ByteOP::get_low_nibble / get_high_nibble
get_low_nibble(byte) == BitAnd(byte, 15)
get_high_nibble(byte) == Shr(BitAnd(byte, 240), 4)

\* WordOP::get_low / get_high
get_low(word) == BitAnd(word, 255)
get_high(word) == Shr(word, 8)

\* WordOP::set_high
set_high(word, value) == BitOr(BitAnd(word, 255), value * 256)

\* to_word with its arguments taken in the other order
bytes2word_big_endian(lsb, msb) == msb + 256 * lsb

\* utils::to_word(lsb, msb), imported by cpu.rs and memory.rs as bytes2word
bytes2word(lsb, msb) == set_high(lsb, msb)

\* `byte as SignedByte`: reinterpret a u8 as an i8 (two's complement)
as_signed(byte) == IF byte >= 128 THEN byte - 256 ELSE byte

\* wrapping_add_signed with the offset taken as an unsigned byte
wrapping_add_unsigned_offset(word, e) == (word + ((e + 256) % 256)) % 65536

\* u16::wrapping_add_signed
wrapping_add_signed(word, e) == (word + e + 65536) % 65536

----------------------------------------------------------------------------
(* memory.rs *)

\* Memory::new: every cell is 0; only non-zero cells are kept in the function
new_memory == [x \in {} |-> 0]

\* Memory::read_byte_unsafe
read_byte_unsafe(mem, address) ==
    IF address \in DOMAIN mem THEN mem[address] ELSE 0

\* Memory::read_byte: Some(byte) when address < len, None otherwise
read_byte(mem, address) ==
    IF address < MEMORY_SIZE
    THEN [some |-> TRUE, val |-> read_byte_unsafe(mem, address)]
    ELSE [some |-> FALSE, val |-> 0]

\* Memory::read_word: None when address + 1 is outside the array
read_word(mem, address) ==
    IF address + 1 < MEMORY_SIZE
    THEN [some |-> TRUE,
          val |-> bytes2word(read_byte_unsafe(mem, address),
                             read_byte_unsafe(mem, address + 1))]
    ELSE [some |-> FALSE, val |-> 0]

\* Memory::write_byte (address is a u16, hence always inside the array)
write_byte(mem, address, byte) ==
    IF address < MEMORY_SIZE
    THEN [x \in (IF byte = 0 THEN DOMAIN mem \ {address}
                            ELSE DOMAIN mem \cup {address}) |->
             IF x = address THEN byte ELSE mem[x]]
    ELSE mem

\* Memory::read_word_unsafe: indexes memory[address + 1], which is outside the
\* array for address 0xFFFF (the index is a usize and does not wrap)
read_word_unsafe(mem, address) ==
    IF address + 1 < MEMORY_SIZE
    THEN [panic |-> FALSE,
          val |-> bytes2word(read_byte_unsafe(mem, address),
                             read_byte_unsafe(mem, address + 1))]
    ELSE [panic |-> TRUE, val |-> 0]

\* Memory::write_byte_unsafe
write_byte_unsafe(mem, address, byte) ==
    IF byte = 0 THEN [x \in DOMAIN mem \ {address} |-> mem[x]]
    ELSE (address :> byte) @@ mem

\* Memory::wrapping_add: memory[address] = memory[address].wrapping_add(value)
memory_wrapping_add(mem, address, value) ==
    write_byte_unsafe(mem, address, (read_byte_unsafe(mem, address) + value) % 256)

\* Memory::get_flag / Memory::set_flag on a flag byte
get_memory_flag(flag_byte, flag) == BitAnd(flag_byte, flag) > 0
set_memory_flag(flag_byte, flag) == BitOr(flag_byte, flag)

\* A ROM image (Vec<Byte>): its length and its non-zero bytes by index.
RomByte(rom, i) == IF i \in DOMAIN rom.cells THEN rom.cells[i] ELSE 0

\* Memory::load_rom_offset:
\*   memory[offset..rom_data.len()].copy_from_slice(&rom_data[offset..])
\* Both slices panic when offset > len, the first one when len > MEMORY_SIZE.
load_rom_offset(mem, rom, offset) ==
    IF offset > rom.len \/ rom.len > MEMORY_SIZE
    THEN [panic |-> TRUE, memory |-> mem]
    ELSE [panic |-> FALSE,
          memory |->
            [x \in {y \in DOMAIN mem : y < offset \/ y >= rom.len}
                   \cup {i \in DOMAIN rom.cells : offset <= i /\ i < rom.len} |->
                IF offset <= x /\ x < rom.len THEN rom.cells[x] ELSE mem[x]]]

\* Memory::load_rom
load_rom(mem, rom) == load_rom_offset(mem, rom, 0)

\* a run of write_byte calls storing bytes[1..n] at base, base+1, ...
RECURSIVE write_bytes(_, _, _)
write_bytes(mem, base, bytes) ==
    IF bytes = <<>> THEN mem
    ELSE write_bytes(write_byte(mem, base % MEMORY_SIZE, Head(bytes)),
                     base + 1, Tail(bytes))

----------------------------------------------------------------------------
(* cpu.rs: Register, Register16, Condition *)

\* Register::get_r
get_r(code) ==
    CASE mask(code, 7) = 0 -> "B"
      [] mask(code, 7) = 1 -> "C"
      [] mask(code, 7) = 2 -> "D"
      [] mask(code, 7) = 3 -> "E"
      [] mask(code, 7) = 4 -> "H"
      [] mask(code, 7) = 5 -> "L"
      [] mask(code, 7) = 6 -> "HL"
      [] mask(code, 7) = 7 -> "A"

\* Register::get_rr: <<left register, right register>> of 0bxxxyyy
get_r_pair(code) ==
    <<get_r(Shr(mask(code, 56), 3)), get_r(mask(code, 7))>>

\* Register16::get_rr
get_rr(code, sp) ==
    CASE mask(code, 3) = 0 -> "BC"
      [] mask(code, 3) = 1 -> "DE"
      [] mask(code, 3) = 2 -> "HL"
      [] mask(code, 3) = 3 /\ sp -> "SP"
      [] mask(code, 3) = 3 /\ ~sp -> "AF"

\* Condition::get_cond
get_cond(code) ==
    CASE BitAnd(code, 3) = 0 -> "NonZero"
      [] BitAnd(code, 3) = 1 -> "Zero"
      [] BitAnd(code, 3) = 2 -> "NotCarry"
      [] BitAnd(code, 3) = 3 -> "Carry"

Register16 == {"BC", "DE", "HL", "SP", "AF"}

----------------------------------------------------------------------------
(* cpu.rs: OpCode(pattern, mask) templates of SizedInstruction *)

OpCode ==
    [NOP |-> <<0, 255>>,
     LD1 |-> <<64, 192>>,
     LD2 |-> <<6, 199>>,
     LD3 |-> <<234, 239>>,
     LD4 |-> <<226, 239>>,
     LD5 |-> <<224, 239>>,
     LD6 |-> <<2, 199>>,
     LD7 |-> <<1, 207>>,
     LD8 |-> <<8, 255>>,
     LD9 |-> <<248, 254>>,
     PUSH_POP |-> <<193, 203>>,
     ARITH_OP_R |-> <<128, 200>>,
     ARITH_OP_C_R |-> <<136, 200>>,
     ARITH_OP_N |-> <<198, 207>>,
     ARITH_OP_C_N |-> <<206, 207>>,
     INC_DEC_R |-> <<4, 198>>,
     CARRY |-> <<55, 247>>,
     INC_DEC_RR |-> <<3, 199>>,
     CALL |-> <<196, 230>>,
     RET |-> <<201, 255>>,
     RET_CC |-> <<192, 231>>,
     RETI |-> <<217, 255>>,
     RST |-> <<199, 199>>,
     JP |-> <<195, 255>>,
     JP_HL |-> <<233, 255>>,
     JP_CC |-> <<194, 231>>,
     JR |-> <<24, 255>>,
     JR_CC |-> <<32, 231>>,
     ADD_HL_RR |-> <<9, 207>>,
     ADD_SP_E |-> <<232, 255>>,
     DAA |-> <<39, 255>>,
     ROT_ACC |-> <<7, 231>>,
     CB |-> <<203, 255>>,
     CB1 |-> <<0, 192>>,
     IR |-> <<243, 247>>]

\* OpCode::matches
matches(opc, code) == mask(code, opc[2]) = opc[1]

----------------------------------------------------------------------------
(* cpu.rs: Instruction values.  Every variant is a record of one shape:    *)
(* op is the variant, r1 / r2 its Register operands, rr its Register16,    *)
(* cc its Condition and n its numeric operand (Byte, Word, SignedByte or   *)
(* bit index); an operand the variant does not carry is "-" or 0.          *)

Ins(op) == [op |-> op, r1 |-> "-", r2 |-> "-", rr |-> "-", cc |-> "-", n |-> 0]
InsR(op, r) == [Ins(op) EXCEPT !.r1 = r]
InsRR(op, l, r) == [Ins(op) EXCEPT !.r1 = l, !.r2 = r]
InsN(op, n) == [Ins(op) EXCEPT !.n = n]
InsRN(op, r, n) == [Ins(op) EXCEPT !.r1 = r, !.n = n]
InsR16(op, rr) == [Ins(op) EXCEPT !.rr = rr]
InsR16N(op, rr, n) == [Ins(op) EXCEPT !.rr = rr, !.n = n]
InsC(op, cc) == [Ins(op) EXCEPT !.cc = cc]
InsCN(op, cc, n) == [Ins(op) EXCEPT !.cc = cc, !.n = n]

\* Results of SizedInstruction::decode.  Some(SizedInstruction), None, or
\* the panic of an overflowing `address + 1`; reads is the set of addresses
\* the call read.
SomeDecoded(instruction, size, reads) ==
    [panic |-> FALSE, some |-> TRUE, instruction |-> instruction,
     size |-> size, reads |-> reads]
NoneDecoded(reads) ==
    [panic |-> FALSE, some |-> FALSE, instruction |-> Ins("-"),
     size |-> 0, reads |-> reads]
PanicDecoded(reads) ==
    [panic |-> TRUE, some |-> FALSE, instruction |-> Ins("-"),
     size |-> 0, reads |-> reads]

\* `address + 1` on a u16: panics on overflow when the build checks
\* arithmetic overflow, wraps otherwise
add_overflows(word, k) == word + k > 65535
wrapping_add(word, k) == (word + k) % 65536
sub_overflows(word, k) == word - k < 0
wrapping_sub(word, k) == (word - k + 65536) % 65536

----------------------------------------------------------------------------
(* cpu.rs: SizedInstruction::decode_cb *)

\* the variant on (HL) when r is Register::HL, the register variant otherwise
CbIns(op, r) == IF r = "HL" THEN Ins(op \o "_HL") ELSE InsR(op, r)
CbBitIns(op, b, r) == IF r = "HL" THEN InsN(op \o "_HL", b) ELSE InsRN(op, r, b)

decode_cb(mem, address) ==
    LET opcode == read_byte(mem, address).val
        r == get_r(opcode)
        b == BitAnd(Shr(opcode, 3), 7)
        instruction ==
            IF matches(OpCode.CB1, opcode)
            THEN IF BitAnd(opcode, 8) > 0
                 THEN CASE get_high_nibble(opcode) = 0 -> CbIns("RRC", r)
                        [] get_high_nibble(opcode) = 1 -> CbIns("RR", r)
                        [] get_high_nibble(opcode) = 2 -> CbIns("SRA", r)
                        [] get_high_nibble(opcode) = 3 -> CbIns("SRL", r)
                 ELSE CASE get_high_nibble(opcode) = 0 -> CbIns("RLC", r)
                        [] get_high_nibble(opcode) = 1 -> CbIns("RL", r)
                        [] get_high_nibble(opcode) = 2 -> CbIns("SLA", r)
                        [] get_high_nibble(opcode) = 3 -> CbIns("SWAP", r)
            ELSE CASE Shr(opcode, 6) = 1 -> CbBitIns("BIT", b, get_r(BitAnd(opcode, 7)))
                   [] Shr(opcode, 6) = 2 -> CbBitIns("RES", b, get_r(BitAnd(opcode, 7)))
                   [] Shr(opcode, 6) = 3 -> CbBitIns("SET", b, get_r(BitAnd(opcode, 7)))
    IN  SomeDecoded(instruction, 1, {address})

----------------------------------------------------------------------------
(* cpu.rs: SizedInstruction::decode *)

decode(mem, address) ==
    LET opcode == read_byte(mem, address).val
        \* `address + 1`
        next_panics == overflow_checks /\ add_overflows(address, 1)
        next == wrapping_add(address, 1)
        \* memory.read_byte(address + 1)?
        n == read_byte(mem, next).val
        \* memory.read_word(address + 1)?
        nn == read_word(mem, next)
        Op0(instruction) == SomeDecoded(instruction, 1, {address})
        Op8(instruction) ==
            IF next_panics THEN PanicDecoded({address})
            ELSE SomeDecoded(instruction, 2, {address, next})
        Op16(instruction) ==
            IF next_panics THEN PanicDecoded({address})
            ELSE IF ~nn.some THEN NoneDecoded({address})
            ELSE SomeDecoded(instruction, 3, {address, next, next + 1})
        bit(k) == BitAnd(opcode, 2 ^ k) # 0
        hi == get_high_nibble(opcode)
        r == get_r(opcode)
        r3 == get_r(Shr(opcode, 3))
        rp == get_r_pair(opcode)
    IN
    IF matches(OpCode.NOP, opcode) THEN Op0(Ins("NOP"))
    ELSE IF matches(OpCode.LD1, opcode) THEN
        Op0(IF rp[1] = "HL" /\ rp[2] = "HL" THEN Ins("HALT")
            ELSE IF rp[1] = "HL" THEN InsR("LD_HL_R", rp[2])
            ELSE IF rp[2] = "HL" THEN InsR("LD_R_HL", rp[1])
            ELSE InsRR("LD_R_R", rp[1], rp[2]))
    ELSE IF matches(OpCode.LD2, opcode) THEN
        Op8(IF r3 = "HL" THEN InsN("LD_HL_N", n) ELSE InsRN("LD_R_N", r3, n))
    ELSE IF matches(OpCode.LD3, opcode) THEN
        Op16(IF bit(4) THEN InsN("LD_A_NN", nn.val) ELSE InsN("LD_NN_A", nn.val))
    ELSE IF matches(OpCode.LD4, opcode) THEN
        Op0(IF bit(4) THEN Ins("LDH_A_C") ELSE Ins("LDH_C_A"))
    ELSE IF matches(OpCode.LD5, opcode) THEN
        Op8(IF bit(4) THEN InsN("LDH_A_N", n) ELSE InsN("LDH_N_A", n))
    ELSE IF matches(OpCode.LD6, opcode) THEN
        Op0(IF bit(3)
            THEN CASE hi = 0 -> Ins("LD_A_BC")
                   [] hi = 1 -> Ins("LD_A_DE")
                   [] hi = 2 -> Ins("LD_A_HL_I")
                   [] hi = 3 -> Ins("LD_A_HL_D")
            ELSE CASE hi = 0 -> Ins("LD_BC_A")
                   [] hi = 1 -> Ins("LD_DE_A")
                   [] hi = 2 -> Ins("LD_HL_A_I")
                   [] hi = 3 -> Ins("LD_HL_A_D"))
    ELSE IF matches(OpCode.LD7, opcode) THEN
        Op16(InsR16N("LD_RR_NN", get_rr(Shr(opcode, 4), TRUE), nn.val))
    ELSE IF matches(OpCode.LD8, opcode) THEN
        Op16(InsN("LD_NN_SP", nn.val))
    ELSE IF matches(OpCode.LD9, opcode) THEN
        IF BitAnd(opcode, 1) = 1 THEN Op0(Ins("LD_SP_HL"))
        ELSE Op8(InsN("LD_HL_SP", as_signed(n)))
    ELSE IF matches(OpCode.PUSH_POP, opcode) THEN
        Op0(IF bit(2) THEN InsR16("PUSH", get_rr(Shr(opcode, 4), FALSE))
                      ELSE InsR16("POP", get_rr(Shr(opcode, 4), FALSE)))
    ELSE IF matches(OpCode.ARITH_OP_R, opcode) THEN
        Op0(CASE hi = 8 /\ r = "HL" -> Ins("ADD_HL")
              [] hi = 8 /\ r # "HL" -> InsR("ADD_R", r)
              [] hi = 9 /\ r = "HL" -> Ins("SUB_HL")
              [] hi = 9 /\ r # "HL" -> InsR("SUB_R", r)
              [] hi = 10 /\ r = "HL" -> Ins("AND_HL")
              [] hi = 10 /\ r # "HL" -> InsR("AND_R", r)
              [] hi = 11 /\ r = "HL" -> Ins("OR_HL")
              [] hi = 11 /\ r # "HL" -> InsR("OR_R", r))
    ELSE IF matches(OpCode.ARITH_OP_C_R, opcode) THEN
        Op0(CASE hi = 8 /\ r = "HL" -> Ins("ADC_HL")
              [] hi = 8 /\ r # "HL" -> InsR("ADC_R", r)
              [] hi = 9 /\ r = "HL" -> Ins("SBC_HL")
              [] hi = 9 /\ r # "HL" -> InsR("SBC_R", r)
              [] hi = 10 /\ r = "HL" -> Ins("XOR_HL")
              [] hi = 10 /\ r # "HL" -> InsR("XOR_R", r)
              [] hi = 11 /\ r = "HL" -> Ins("CP_HL")
              [] hi = 11 /\ r # "HL" -> InsR("CP_R", r))
    ELSE IF matches(OpCode.ARITH_OP_N, opcode) THEN
        Op8(CASE hi = 12 -> InsN("ADD_N", n)
              [] hi = 13 -> InsN("SUB_N", n)
              [] hi = 14 -> InsN("AND_N", n)
              [] hi = 15 -> InsN("OR_N", n))
    ELSE IF matches(OpCode.ARITH_OP_C_N, opcode) THEN
        Op8(CASE hi = 12 -> InsN("ADC_N", n)
              [] hi = 13 -> InsN("SBC_N", n)
              [] hi = 14 -> InsN("XOR_N", n)
              [] hi = 15 -> InsN("CP_N", n))
    ELSE IF matches(OpCode.INC_DEC_R, opcode) THEN
        Op0(IF BitAnd(opcode, 1) = 0
            THEN (IF r3 = "HL" THEN Ins("INC_HL") ELSE InsR("INC_R", r3))
            ELSE (IF r3 = "HL" THEN Ins("DEC_HL") ELSE InsR("DEC_R", r3)))
    ELSE IF matches(OpCode.CARRY, opcode) THEN
        Op0(IF bit(3) THEN Ins("CCF") ELSE Ins("SCF"))
    ELSE IF matches(OpCode.INC_DEC_RR, opcode) THEN
        Op0(IF bit(3) THEN InsR16("DEC_RR", get_rr(Shr(opcode, 4), TRUE))
                      ELSE InsR16("INC_RR", get_rr(Shr(opcode, 4), TRUE)))
    ELSE IF matches(OpCode.CALL, opcode) THEN
        Op16(IF BitAnd(opcode, 1) # 0 THEN InsN("CALL", nn.val)
             ELSE InsCN("CALL_CC", get_cond(Shr(opcode, 3)), nn.val))
    ELSE IF matches(OpCode.RET, opcode) THEN Op0(Ins("RET"))
    ELSE IF matches(OpCode.RET_CC, opcode) THEN
        Op0(InsC("RET_CC", get_cond(Shr(opcode, 3))))
    ELSE IF matches(OpCode.RETI, opcode) THEN Op0(Ins("RETI"))
    ELSE IF matches(OpCode.RST, opcode) THEN
        Op0(InsN("RST", BitAnd(Shr(opcode, 3), 7) * 8))
    ELSE IF matches(OpCode.JP, opcode) THEN Op16(InsN("JP_NN", nn.val))
    ELSE IF matches(OpCode.JP_HL, opcode) THEN Op0(Ins("JP_HL"))
    ELSE IF matches(OpCode.JP_CC, opcode) THEN
        Op16(InsCN("JP_CC_NN", get_cond(Shr(opcode, 3)), nn.val))
    ELSE IF matches(OpCode.JR, opcode) THEN Op8(InsN("JR", as_signed(n)))
    ELSE IF matches(OpCode.JR_CC, opcode) THEN
        Op8(InsCN("JR_CC", get_cond(Shr(opcode, 3)), as_signed(n)))
    ELSE IF matches(OpCode.DAA, opcode) THEN Op0(Ins("DAA"))
    ELSE IF matches(OpCode.ADD_HL_RR, opcode) THEN
        Op0(InsR16("ADD_HL_RR", get_rr(Shr(opcode, 4), TRUE)))
    ELSE IF matches(OpCode.ADD_SP_E, opcode) THEN
        Op8(InsN("ADD_SP_E", as_signed(n)))
    ELSE IF matches(OpCode.ROT_ACC, opcode) THEN
        Op0(IF bit(3)
            THEN (IF bit(4) THEN Ins("RRA") ELSE Ins("RRCA"))
            ELSE (IF bit(4) THEN Ins("RLA") ELSE Ins("RLCA")))
    ELSE IF matches(OpCode.CB, opcode) THEN
        IF next_panics THEN PanicDecoded({address})
        ELSE LET sized_instruction == decode_cb(mem, next)
             IN  SomeDecoded(sized_instruction.instruction,
                             sized_instruction.size + 1,
                             {address} \cup sized_instruction.reads)
    ELSE IF matches(OpCode.IR, opcode) THEN
        Op0(IF bit(3) THEN Ins("EI") ELSE Ins("DI"))
    ELSE NoneDecoded({address})

----------------------------------------------------------------------------
(* cpu.rs: struct CPU *)

ZERO_FLAG == 128
SUBTRACT_FLAG == 64
HALF_CARRY_FLAG == 32
CARRY_FLAG == 16

\* CPU::new
new_cpu ==
    [a |-> 0, b |-> 0, c |-> 0, d |-> 0, e |-> 0, h |-> 0, l |-> 0,
     f |-> 0, sp |-> 65534, pc |-> 256, ime |-> FALSE]

\* CPU::get_flag / set_flag / reset_flag / reset_all_flags
get_flag(c, flag) == BitAnd(c.f, flag) > 0
set_flag(c, flag) == [c EXCEPT !.f = BitOr(c.f, flag)]
reset_flag(c, flag) == [c EXCEPT !.f = BitAnd(c.f, BitNot8(flag))]
reset_all_flags(c) == [c EXCEPT !.f = 0]

\* CPU::zero_flag
zero_flag(c, result) ==
    IF result = 0 THEN set_flag(reset_flag(c, ZERO_FLAG), ZERO_FLAG)
    ELSE reset_flag(c, ZERO_FLAG)

\* half_carry_flag_add without the nibble masks
half_carry_flag_add_unmasked(c, b1, b2) ==
    IF b1 + b2 > 15
    THEN [c EXCEPT !.f = BitOr(BitAnd(c.f, 255 - HALF_CARRY_FLAG), HALF_CARRY_FLAG)]
    ELSE [c EXCEPT !.f = BitAnd(c.f, 255 - HALF_CARRY_FLAG)]

\* CPU::half_carry_flag_add
half_carry_flag_add(c, b1, b2) ==
    IF BitAnd(b1, 15) + BitAnd(b2, 15) > 15
    THEN set_flag(reset_flag(c, HALF_CARRY_FLAG), HALF_CARRY_FLAG)
    ELSE reset_flag(c, HALF_CARRY_FLAG)

\* half_carry_flag_sub comparing the whole bytes
half_carry_flag_sub_unmasked(c, b1, b2) ==
    IF b1 < b2
    THEN set_flag(reset_flag(c, HALF_CARRY_FLAG), HALF_CARRY_FLAG)
    ELSE reset_flag(c, HALF_CARRY_FLAG)

\* CPU::half_carry_flag_sub
half_carry_flag_sub(c, b1, b2) ==
    IF BitAnd(b1, 15) < BitAnd(b2, 15)
    THEN set_flag(reset_flag(c, HALF_CARRY_FLAG), HALF_CARRY_FLAG)
    ELSE reset_flag(c, HALF_CARRY_FLAG)

\* the `reset_flag(CARRY_FLAG); if overflow { set_flag(CARRY_FLAG) }` idiom
carry_flag(c, overflow) ==
    IF overflow THEN set_flag(reset_flag(c, CARRY_FLAG), CARRY_FLAG)
    ELSE reset_flag(c, CARRY_FLAG)

\* CPU::get_register (Register::HL panics; decode never passes it)
get_register(c, reg) ==
    CASE reg = "A" -> c.a
      [] reg = "B" -> c.b
      [] reg = "C" -> c.c
      [] reg = "D" -> c.d
      [] reg = "E" -> c.e
      [] reg = "H" -> c.h
      [] reg = "L" -> c.l

\* CPU::set_register
set_register(c, reg, byte) ==
    CASE reg = "A" -> [c EXCEPT !.a = byte]
      [] reg = "B" -> [c EXCEPT !.b = byte]
      [] reg = "C" -> [c EXCEPT !.c = byte]
      [] reg = "D" -> [c EXCEPT !.d = byte]
      [] reg = "E" -> [c EXCEPT !.e = byte]
      [] reg = "H" -> [c EXCEPT !.h = byte]
      [] reg = "L" -> [c EXCEPT !.l = byte]

\* CPU::get_register16
get_register16(c, reg) ==
    CASE reg = "SP" -> c.sp
      [] reg = "BC" -> bytes2word(c.c, c.b)
      [] reg = "DE" -> bytes2word(c.e, c.d)
      [] reg = "AF" -> bytes2word(c.f, c.a)
      [] reg = "HL" -> bytes2word(c.l, c.h)

\* set_register16 with the two bytes of BC stored the wrong way round
set_register16_swapped(c, reg, word) ==
    CASE reg = "SP" -> [c EXCEPT !.sp = word]
      [] reg = "BC" -> [c EXCEPT !.b = word % 256, !.c = word \div 256]
      [] reg = "DE" -> [c EXCEPT !.d = word \div 256, !.e = word % 256]
      [] reg = "AF" -> [c EXCEPT !.a = word \div 256, !.f = word % 256]
      [] reg = "HL" -> [c EXCEPT !.h = word \div 256, !.l = word % 256]

\* CPU::set_register16
set_register16(c, reg, word) ==
    CASE reg = "SP" -> [c EXCEPT !.sp = word]
      [] reg = "BC" -> [c EXCEPT !.b = get_high(word), !.c = get_low(word)]
      [] reg = "DE" -> [c EXCEPT !.d = get_high(word), !.e = get_low(word)]
      [] reg = "AF" -> [c EXCEPT !.a = get_high(word), !.f = get_low(word)]
      [] reg = "HL" -> [c EXCEPT !.h = get_high(word), !.l = get_low(word)]

\* CPU::get_hl / set_hl
get_hl(c) == get_register16(c, "HL")
set_hl(c, word) == set_register16(c, "HL", word)

\* CPU::get_condition
get_condition(c, cc) ==
    CASE cc = "NonZero" -> ~get_flag(c, ZERO_FLAG)
      [] cc = "Zero" -> get_flag(c, ZERO_FLAG)
      [] cc = "NotCarry" -> ~get_flag(c, CARRY_FLAG)
      [] cc = "Carry" -> get_flag(c, CARRY_FLAG)

----------------------------------------------------------------------------
(* cpu.rs: CPU::execute.  The result is the CPU and memory after the       *)
(* instruction at pc, or a panic: a failed decode, an arm that is not      *)
(* implemented, or an overflowing +=, -=, + or - on a u16 in a build that  *)
(* checks arithmetic overflow (the same arithmetic wraps otherwise).       *)

Executed(c, mem) == [panic |-> FALSE, cpu |-> c, memory |-> mem]
Panicked(c, mem) == [panic |-> TRUE, cpu |-> c, memory |-> mem]

\* the ADD_R / ADD_N arms
execute_add(c, val) ==
    LET result == (c.a + val) % 256
        overflow == c.a + val > 255
        c1 == zero_flag(c, result)
        c2 == half_carry_flag_add(c1, c.a, val)
        c3 == reset_flag(c2, SUBTRACT_FLAG)
        c4 == carry_flag(c3, overflow)
    IN  [c4 EXCEPT !.a = result]

\* the SUB_R / SUB_N arms; CP_N is the same without the store to a
execute_sub(c, val, store) ==
    LET result == (c.a - val + 256) % 256
        overflow == c.a < val
        c1 == zero_flag(c, result)
        c2 == half_carry_flag_sub(c1, c.a, val)
        c3 == set_flag(c2, SUBTRACT_FLAG)
        c4 == carry_flag(c3, overflow)
    IN  IF store THEN [c4 EXCEPT !.a = result] ELSE c4

\* the AND_N arm
execute_and(c, val) ==
    LET result == BitAnd(c.a, val)
        c1 == zero_flag([c EXCEPT !.a = result], result)
        c2 == set_flag(c1, HALF_CARRY_FLAG)
        c3 == reset_flag(c2, SUBTRACT_FLAG)
    IN  reset_flag(c3, CARRY_FLAG)

\* the OR_R arm
execute_or(c, val) ==
    LET result == BitOr(c.a, val)
        c1 == zero_flag(reset_all_flags(c), result)
    IN  [c1 EXCEPT !.a = result]

\* the XOR_R / XOR_HL arms
execute_xor(c, val) ==
    LET result == BitXor(c.a, val)
        c1 == zero_flag(c, result)
        c2 == reset_flag(c1, SUBTRACT_FLAG)
        c3 == reset_flag(c2, HALF_CARRY_FLAG)
    IN  [c3 EXCEPT !.a = result]

\* the INC_R arm with the carry handling of the ADD arms
execute_inc_with_carry(c, r) ==
    LET reg_val == get_register(c, r)
        result == (reg_val + 1) % 256
        c1 == zero_flag(c, result)
        c2 == half_carry_flag_add(c1, reg_val, 1)
        c3 == reset_flag(c2, SUBTRACT_FLAG)
        c4 == carry_flag(c3, reg_val + 1 > 255)
    IN  set_register(c4, r, result)

\* the INC_R arm
execute_inc(c, r) ==
    LET reg_val == get_register(c, r)
        result == (reg_val + 1) % 256
        c1 == zero_flag(c, result)
        c2 == half_carry_flag_add(c1, reg_val, 1)
        c3 == reset_flag(c2, SUBTRACT_FLAG)
    IN  set_register(c3, r, result)

\* the DEC_R arm
execute_dec(c, r) ==
    LET reg_val == get_register(c, r)
        result == (reg_val + 255) % 256
        c1 == zero_flag(c, result)
        c2 == half_carry_flag_sub(c1, reg_val, 1)
        c3 == set_flag(c2, SUBTRACT_FLAG)
    IN  set_register(c3, r, result)

\* the BIT arm
execute_bit(c, b, r) ==
    LET result == Shr(BitAnd(get_register(c, r), 2 ^ b), b)
        c1 == reset_flag(c, SUBTRACT_FLAG)
        c2 == set_flag(c1, HALF_CARRY_FLAG)
    IN  zero_flag(c2, result)

\* the stack writes of PUSH / CALL / CALL_CC with the low byte written first
push_word_low_first(c, mem, data) ==
    LET sp1 == wrapping_sub(c.sp, 1)
        sp2 == wrapping_sub(sp1, 1)
        m1 == write_byte(mem, sp1, get_low(data))
        m2 == write_byte(m1, sp2, get_high(data))
    IN  [overflow |-> sub_overflows(c.sp, 2), cpu |-> [c EXCEPT !.sp = sp2], memory |-> m2]

\* `sp -= 1; write(sp, high); sp -= 1; write(sp, low)` of PUSH / CALL / CALL_CC
push_word(c, mem, data) ==
    LET sp1 == wrapping_sub(c.sp, 1)
        sp2 == wrapping_sub(sp1, 1)
        m1 == write_byte(mem, sp1, get_high(data))
        m2 == write_byte(m1, sp2, get_low(data))
    IN  [overflow |-> sub_overflows(c.sp, 2), cpu |-> [c EXCEPT !.sp = sp2], memory |-> m2]

\* `lsb = read(sp); sp += 1; msb = read(sp); sp += 1` of POP / RET
pop_word(c, mem) ==
    LET lsb == read_byte(mem, c.sp).val
        sp1 == wrapping_add(c.sp, 1)
        msb == read_byte(mem, sp1).val
        sp2 == wrapping_add(sp1, 1)
    IN  [overflow |-> add_overflows(c.sp, 2), cpu |-> [c EXCEPT !.sp = sp2],
         word |-> bytes2word(lsb, msb)]

\* the `match instruction.instruction` of CPU::execute on a decoded instruction
execute_instruction(c, mem, sized) ==
    LET instruction == sized.instruction
        op == instruction.op
        n == instruction.n
        \* self.pc += k
        Pc(c1, k) == [c1 EXCEPT !.pc = wrapping_add(c.pc, k)]
        \* the arm's result, unless one of its u16 operations overflowed
        Arm(overflow, c1, m1) ==
            IF overflow_checks /\ overflow THEN Panicked(c, mem)
            ELSE Executed(c1, m1)
        Advance(c1, m1) == Arm(add_overflows(c.pc, sized.size), Pc(c1, sized.size), m1)
        hl == get_hl(c)
        ff(byte) == bytes2word(byte, 255)
        pushed(k) == push_word(Pc(c, k), mem, wrapping_add(c.pc, k))
        popped == pop_word(Pc(c, 1), mem)
    IN
    CASE op = "NOP" -> Advance(c, mem)
      [] op = "ADD_R" -> Advance(execute_add(c, get_register(c, instruction.r1)), mem)
      [] op = "ADD_N" -> Advance(execute_add(c, n), mem)
      [] op = "SUB_R" -> Advance(execute_sub(c, get_register(c, instruction.r1), TRUE), mem)
      [] op = "SUB_N" -> Advance(execute_sub(c, n, TRUE), mem)
      [] op = "AND_N" -> Advance(execute_and(c, n), mem)
      [] op = "OR_R" -> Advance(execute_or(c, get_register(c, instruction.r1)), mem)
      [] op = "XOR_R" -> Advance(execute_xor(c, get_register(c, instruction.r1)), mem)
      [] op = "XOR_HL" -> Advance(execute_xor(c, read_byte(mem, hl).val), mem)
      [] op = "CP_N" -> Advance(execute_sub(c, n, FALSE), mem)
      [] op = "LD_R_R" ->
            Advance(set_register(c, instruction.r1, get_register(c, instruction.r2)), mem)
      [] op = "LD_R_N" -> Advance(set_register(c, instruction.r1, n), mem)
      [] op = "LD_R_HL" ->
            Advance(set_register(c, instruction.r1, read_byte(mem, hl).val), mem)
      [] op = "LD_RR_NN" -> Advance(set_register16(c, instruction.rr, n), mem)
      [] op = "LD_A_HL_I" ->
            Arm(add_overflows(hl, 1) \/ add_overflows(c.pc, sized.size),
                Pc(set_hl([c EXCEPT !.a = read_byte(mem, hl).val], wrapping_add(hl, 1)),
                   sized.size),
                mem)
      [] op = "LD_DE_A" -> Advance(c, write_byte(mem, get_register16(c, "DE"), c.a))
      [] op = "LDH_C_A" -> Advance(c, write_byte(mem, ff(c.c), c.a))
      [] op = "LD_HL_R" -> Advance(c, write_byte(mem, hl, get_register(c, instruction.r1)))
      [] op = "LD_HL_A_D" ->
            Arm(sub_overflows(hl, 1) \/ add_overflows(c.pc, sized.size),
                Pc(set_hl(c, wrapping_sub(hl, 1)), sized.size),
                write_byte(mem, hl, c.a))
      [] op = "LD_HL_A_I" ->
            Arm(add_overflows(hl, 1) \/ add_overflows(c.pc, sized.size),
                Pc(set_hl(c, wrapping_add(hl, 1)), sized.size),
                write_byte(mem, hl, c.a))
      [] op = "LD_A_DE" ->
            Advance([c EXCEPT !.a = read_byte(mem, get_register16(c, "DE")).val], mem)
      [] op = "LD_A_NN" -> Advance([c EXCEPT !.a = read_byte(mem, n).val], mem)
      [] op = "LD_NN_A" -> Advance(c, write_byte(mem, n, c.a))
      [] op = "LDH_N_A" ->
            Arm(add_overflows(c.pc, 2), Pc(c, 2), write_byte(mem, ff(n), c.a))
      [] op = "LDH_A_N" ->
            Arm(add_overflows(c.pc, 2),
                Pc([c EXCEPT !.a = read_byte(mem, ff(n)).val], 2), mem)
      [] op = "INC_R" -> Advance(execute_inc(c, instruction.r1), mem)
      [] op = "DEC_R" -> Advance(execute_dec(c, instruction.r1), mem)
      [] op = "INC_RR" ->
            Advance(set_register16(c, instruction.rr,
                        (get_register16(c, instruction.rr) + 1) % 65536), mem)
      [] op = "DEC_RR" ->
            Advance(set_register16(c, instruction.rr,
                        (get_register16(c, instruction.rr) + 65535) % 65536), mem)
      [] op = "BIT" -> Advance(execute_bit(c, n, instruction.r1), mem)
      [] op = "JP_NN" -> Executed([c EXCEPT !.pc = n], mem)
      [] op = "JR" ->
            Arm(add_overflows(c.pc, 2),
                [c EXCEPT !.pc = wrapping_add_signed(wrapping_add(c.pc, 2), n)], mem)
      [] op = "JR_CC" ->
            Arm(add_overflows(c.pc, 2),
                IF get_condition(c, instruction.cc)
                THEN [c EXCEPT !.pc = wrapping_add_signed(wrapping_add(c.pc, 2), n)]
                ELSE Pc(c, 2),
                mem)
      [] op = "PUSH" ->
            LET p == push_word(Pc(c, 1), mem, get_register16(c, instruction.rr))
            IN  Arm(add_overflows(c.pc, 1) \/ p.overflow, p.cpu, p.memory)
      [] op = "POP" ->
            Arm(add_overflows(c.pc, 1) \/ popped.overflow,
                set_register16(popped.cpu, instruction.rr, popped.word), mem)
      [] op = "CALL" ->
            Arm(add_overflows(c.pc, 3) \/ pushed(3).overflow,
                [pushed(3).cpu EXCEPT !.pc = n], pushed(3).memory)
      [] op = "CALL_CC" ->
            IF get_condition(c, instruction.cc)
            THEN Arm(add_overflows(c.pc, 3) \/ pushed(3).overflow,
                     [pushed(3).cpu EXCEPT !.pc = n], pushed(3).memory)
            ELSE Arm(add_overflows(c.pc, 3), Pc(c, 3), mem)
      [] op = "RET" ->
            Arm(add_overflows(c.pc, 1) \/ popped.overflow,
                [popped.cpu EXCEPT !.pc = popped.word], mem)
      [] op = "EI" -> Advance([c EXCEPT !.ime = TRUE], mem)
      [] op = "DI" -> Advance([c EXCEPT !.ime = FALSE], mem)
      [] OTHER -> Panicked(c, mem)

\* CPU::execute: decode the instruction at pc, panic when there is none
execute_decoded(c, mem, sized) ==
    IF sized.panic \/ ~sized.some THEN Panicked(c, mem)
    ELSE execute_instruction(c, mem, sized)

execute(c, mem) == execute_decoded(c, mem, decode(mem, c.pc))

\* CPU::handle_interrupts: the body is empty
handle_interrupts(c, mem) == [cpu |-> c, memory |-> mem]

\* The interrupt registers and request bits that clock.rs and joypad.rs
\* name through cpu.rs, which does not define them.
INTERRUPT_FLAG_ADDRESS == 65295
INTERRUPT_ENABLE_ADDRESS == 65535
TIMER_FLAG == 4
JOYPAD_FLAG == 16
LCD_FLAG == 2

----------------------------------------------------------------------------
(* clock.rs: Clock *)

DIV_ADDRESS == 65284
TIMA_ADDRESS == 65285
TMA_ADDRESS == 65286
TAC_ADDRESS == 65287
TAC_ENABLE_FLAG == 4
TAC_CLOCK_SELECT == 3
CLOCK_RATE == 4194304

\* Clock::new
new_clock == [div_counter |-> 0, timer_counter |-> 0]

\* the match on tac & TAC_CLOCK_SELECT
frequency_hz_swapped(tac) ==
    CASE BitAnd(tac, TAC_CLOCK_SELECT) = 0 -> 4096
      [] BitAnd(tac, TAC_CLOCK_SELECT) = 1 -> 65536
      [] BitAnd(tac, TAC_CLOCK_SELECT) = 2 -> 262144
      [] BitAnd(tac, TAC_CLOCK_SELECT) = 3 -> 16384

frequency_hz(tac) ==
    CASE BitAnd(tac, TAC_CLOCK_SELECT) = 0 -> 4096
      [] BitAnd(tac, TAC_CLOCK_SELECT) = 1 -> 262144
      [] BitAnd(tac, TAC_CLOCK_SELECT) = 2 -> 65536
      [] BitAnd(tac, TAC_CLOCK_SELECT) = 3 -> 16384

\* the body of the while loop for a TIMA that has just been incremented:
\* on reaching 0 the timer bit of IF is set and TIMA is loaded from TMA
tima_overflow(mem) ==
    IF read_byte_unsafe(mem, TIMA_ADDRESS) = 0
    THEN write_byte_unsafe(
             write_byte_unsafe(mem, INTERRUPT_FLAG_ADDRESS,
                 set_memory_flag(read_byte_unsafe(mem, INTERRUPT_FLAG_ADDRESS),
                                 TIMER_FLAG)),
             TIMA_ADDRESS, read_byte_unsafe(mem, TMA_ADDRESS))
    ELSE mem

\* a pass of the while loop that clears timer_counter instead of taking the
\* period from it
tima_pass_clearing(timer, period) ==
    IF timer.timer_counter >= period
    THEN [timer_counter |-> 0,
          memory |-> tima_overflow(
                         memory_wrapping_add(timer.memory, TIMA_ADDRESS, 1))]
    ELSE timer

\* one pass of  while self.timer_counter >= 4194304 / frequency { ... } :
\* the body when the condition holds, nothing once it has failed
tima_pass(timer, period) ==
    IF timer.timer_counter >= period
    THEN [timer_counter |-> timer.timer_counter - period,
          memory |-> tima_overflow(
                         memory_wrapping_add(timer.memory, TIMA_ADDRESS, 1))]
    ELSE timer

\* the while loop, four passes to a level of the recursion
RECURSIVE tima_loop(_, _)
tima_loop(timer, period) ==
    IF timer.timer_counter >= period
    THEN tima_loop(tima_pass(tima_pass(tima_pass(tima_pass(timer, period),
                                                 period), period), period),
                   period)
    ELSE timer

\* the timer half of Clock::tick, on the memory the divider half left
tick_timer(clk, cycles, mem, tac) ==
    IF get_memory_flag(tac, TAC_ENABLE_FLAG)
    THEN tima_loop([timer_counter |-> clk.timer_counter + 4 * cycles,
                    memory |-> mem],
                   CLOCK_RATE \div frequency_hz(tac))
    ELSE [timer_counter |-> clk.timer_counter, memory |-> mem]

\* the divider half of Clock::tick: div_counter.overflowing_add(cycles)
tick_divider(clk, cycles, mem) ==
    IF clk.div_counter + cycles > 255
    THEN memory_wrapping_add(mem, DIV_ADDRESS, 1)
    ELSE mem

\* Clock::tick(cycles, memory), cycles a u8
tick_from(clk, cycles, timer) ==
    [clock |-> [div_counter |-> (clk.div_counter + cycles) % 256,
                timer_counter |-> timer.timer_counter],
     memory |-> timer.memory]

tick_divided(clk, cycles, mem) ==
    tick_from(clk, cycles,
              tick_timer(clk, cycles, mem, read_byte_unsafe(mem, TAC_ADDRESS)))

tick(clk, cycles, mem) == tick_divided(clk, cycles, tick_divider(clk, cycles, mem))

----------------------------------------------------------------------------
(* joypad.rs: Joypad *)

JOYPAD_REGISTER_ADDRESS == 65280
LEFT_BUTTON == 210
RIGHT_BUTTON == 209
UP_BUTTON == 212
DOWN_BUTTON == 216
A_BUTTON == 225
B_BUTTON == 226
SELECT_BUTTON == 228
START_BUTTON == 232

\* the keys Joypad maps to buttons, and one key it does not
GameKeys == {"A", "W", "D", "S", "J", "K", "U", "I"}
Keycode == GameKeys \cup {"Escape"}

\* Joypad::new; last_key is "None" or a Keycode
new_joypad == [last_key |-> "None"]

\* the match keycode { ... } of Joypad::update
button(keycode) ==
    CASE keycode = "A" -> LEFT_BUTTON
      [] keycode = "W" -> UP_BUTTON
      [] keycode = "D" -> RIGHT_BUTTON
      [] keycode = "S" -> DOWN_BUTTON
      [] keycode = "J" -> B_BUTTON
      [] keycode = "K" -> A_BUTTON
      [] keycode = "U" -> SELECT_BUTTON
      [] keycode = "I" -> START_BUTTON

\* Joypad::update
update(jp, mem) ==
    IF jp.last_key = "None" THEN write_byte(mem, JOYPAD_REGISTER_ADDRESS, 255)
    ELSE IF jp.last_key \in GameKeys
         THEN write_byte(mem, JOYPAD_REGISTER_ADDRESS, BitNot8(button(jp.last_key)))
         ELSE mem

\* Joypad::handle_button
handle_button(jp, keycode, down, mem) ==
    IF keycode \notin GameKeys THEN [joypad |-> jp, memory |-> mem]
    ELSE IF jp.last_key = "None" /\ down
         THEN [joypad |-> [jp EXCEPT !.last_key = keycode],
               memory |-> write_byte(mem, INTERRUPT_FLAG_ADDRESS,
                              set_memory_flag(
                                  read_byte_unsafe(mem, INTERRUPT_FLAG_ADDRESS),
                                  JOYPAD_FLAG))]
         ELSE IF jp.last_key # "None" /\ ~down /\ jp.last_key = keycode
              THEN [joypad |-> [jp EXCEPT !.last_key = "None"], memory |-> mem]
              ELSE [joypad |-> jp, memory |-> mem]

----------------------------------------------------------------------------
(* gb.rs: GameBoy::load_rom, GameBoy::load_boot *)

ROM_OFFSET == 256

gameboy_load_rom(mem, rom) == load_rom_offset(mem, rom, ROM_OFFSET)
gameboy_load_boot(mem, rom) == load_rom(mem, rom)

----------------------------------------------------------------------------
(* graphics.rs: Graphics, the scanline state machine of render.  The time  *)
(* stamp counts machine cycles ("456 dots = 114 machine cycles").  The     *)
(* SDL objects and the colours (screen_buffer) are not part of the state:   *)
(* no register, counter or mode depends on them.                           *)

BYTES_PER_TILE == 16
SCY_ADDRESS == 65346
SCX_ADDRESS == 65347
WY_ADDRESS == 65354
WX_ADDRESS == 65355
LY_ADDRESS == 65348
LYC_ADDRESS == 65349
LCDC_ADDRESS == 65344
LCDC_ENABLE_FLAG == 128
WINDOW_TILE_MAP_FLAG == 64
WINDOW_ENABLE_FLAG == 32
BGW_TILES_DATA_FLAG == 16
BG_TILE_MAP_FLAG == 8
LCD_STATUS_ADDRESS == 65345
LCY_INT_FLAG == 64
MODE2_INT_FLAG == 32
MODE1_INT_FLAG == 16
MODE0_INT_FLAG == 8
LYC_EQ_LY_FLAG == 4
SCANLINE_CYCLES == 114
SCREEN_WIDTH == 160

\* PPUMode::Mode0(line) .. PPUMode::Mode3(line); num is PPUMode::to_num
PPUMode(num, line) == [num |-> num, line |-> line]

\* BgFIFO::new.  fifo is the queue of pixels, each pixel named by where it
\* comes from (the tile map, the coordinate in that map, the address of the
\* tile data) instead of by its colour; panic is set once an unwrap or an
\* overflow check inside the FIFO aborted.
new_bg_fifo ==
    [fifo |-> << >>, initialized |-> FALSE, screen_pos |-> [x |-> 0, y |-> 0],
     in_window |-> FALSE, panic |-> FALSE]

\* BgFIFO::in_window
in_window(p, mem) ==
    /\ get_memory_flag(read_byte_unsafe(mem, LCDC_ADDRESS), WINDOW_ENABLE_FLAG)
    /\ p.x + 7 >= read_byte_unsafe(mem, WX_ADDRESS)
    /\ p.y >= read_byte_unsafe(mem, WY_ADDRESS)

\* a usize difference reduced modulo 255: below zero it panics with overflow
\* checks and wraps modulo 2^64 without them, and 2^64 = 1 (mod 255)
usize_sub_mod255(a, b) ==
    [panic |-> overflow_checks /\ a < b,
     val |-> IF a < b THEN (((a - b) % 255) + 1) % 255 ELSE (a - b) % 255]

\* BgFIFO::fetch, the coordinate (fx, fy) and the map of the next tile
fetch_position(f, mem) ==
    IF ~f.in_window
    THEN [panic |-> FALSE,
          x |-> (f.screen_pos.x + Len(f.fifo) + read_byte_unsafe(mem, SCX_ADDRESS)) % 255,
          y |-> (f.screen_pos.y + read_byte_unsafe(mem, SCY_ADDRESS)) % 255,
          map |-> IF get_memory_flag(read_byte_unsafe(mem, LCDC_ADDRESS),
                                     BG_TILE_MAP_FLAG)
                  THEN 39936 ELSE 38912]
    ELSE [panic |-> \/ usize_sub_mod255(f.screen_pos.x + Len(f.fifo) + 7,
                                        read_byte_unsafe(mem, WX_ADDRESS)).panic
                    \/ usize_sub_mod255(f.screen_pos.y,
                                        read_byte_unsafe(mem, WY_ADDRESS)).panic,
          x |-> usize_sub_mod255(f.screen_pos.x + Len(f.fifo) + 7,
                                 read_byte_unsafe(mem, WX_ADDRESS)).val,
          y |-> usize_sub_mod255(f.screen_pos.y,
                                 read_byte_unsafe(mem, WY_ADDRESS)).val,
          map |-> IF get_memory_flag(read_byte_unsafe(mem, LCDC_ADDRESS),
                                     WINDOW_TILE_MAP_FLAG)
                  THEN 39936 ELSE 38912]

\* BgFIFO::fetch, start_address: the tile number read from the map at
\* tile_idx = i + 32 * j, and the address of its data
tile_start_address(fp, mem) ==
    (IF get_memory_flag(read_byte_unsafe(mem, LCDC_ADDRESS), BGW_TILES_DATA_FLAG)
     THEN 32768 ELSE 34816)
    + BYTES_PER_TILE * read_byte_unsafe(mem, fp.map + (fp.x \div 8) + (fp.y \div 8) * 32)

\* Tile::get_range(tx.., ty) of the fetched tile: the pixels of row fy % 8
\* from column fx % 8 to the end of the tile
tile_line(fp, start_address) ==
    [k \in 1..(8 - (fp.x % 8)) |->
        [map |-> fp.map, x |-> fp.x + k - 1, y |-> fp.y, tile |-> start_address]]

\* BgFIFO::fetch filling the queue up to 16 pixels
RECURSIVE fetch_to_sixteen(_, _)
fetch_to_sixteen(f, mem) ==
    IF f.panic \/ Len(f.fifo) >= 16 THEN f
    ELSE IF fetch_position(f, mem).panic THEN [f EXCEPT !.panic = TRUE]
    ELSE fetch_to_sixteen(
             [f EXCEPT !.fifo = @ \o tile_line(fetch_position(f, mem),
                              tile_start_address(fetch_position(f, mem), mem))],
             mem)

\* BgFIFO::fetch: while self.fifo.len() < 8 { ... self.fifo.extend(tile_line) }
RECURSIVE fetch(_, _)
fetch(f, mem) ==
    IF f.panic \/ Len(f.fifo) >= 8 THEN f
    ELSE IF fetch_position(f, mem).panic THEN [f EXCEPT !.panic = TRUE]
    ELSE fetch([f EXCEPT !.fifo = @ \o tile_line(fetch_position(f, mem),
                                tile_start_address(fetch_position(f, mem), mem))],
               mem)

\* BgFIFO::next_line advancing the row on the first line as well
next_line_always_advancing(f, mem) ==
    fetch([f EXCEPT !.fifo = << >>,
                    !.initialized = TRUE,
                    !.screen_pos = [x |-> 0, y |-> f.screen_pos.y + 1],
                    !.in_window = in_window([x |-> 0, y |-> f.screen_pos.y + 1], mem)],
          mem)

\* BgFIFO::next_line
next_line(f, mem) ==
    IF f.initialized
    THEN fetch([f EXCEPT !.fifo = << >>,
                         !.screen_pos = [x |-> 0, y |-> f.screen_pos.y + 1],
                         !.in_window = in_window([x |-> 0, y |-> f.screen_pos.y + 1],
                                                 mem)],
               mem)
    ELSE fetch([f EXCEPT !.fifo = << >>,
                         !.initialized = TRUE,
                         !.in_window = in_window(f.screen_pos, mem)],
               mem)

\* BgFIFO::pop, its head: the switch to the window at its first pixel
enter_window(f, mem) ==
    IF ~f.in_window /\ in_window(f.screen_pos, mem)
    THEN fetch([f EXCEPT !.in_window = TRUE, !.fifo = << >>], mem)
    ELSE f

\* BgFIFO::pop, its tail: pop_front().unwrap(), the step to the next column
\* and the refill
pop_front(f, mem) ==
    IF f.panic \/ f.fifo = << >> THEN [f EXCEPT !.panic = TRUE]
    ELSE fetch([f EXCEPT !.fifo = Tail(@), !.screen_pos.x = @ + 1], mem)

\* BgFIFO::pop
pop(f, mem) == pop_front(enter_window(f, mem), mem)

\* `for x in 0..SCREEN_WIDTH { self.bg_fifo.pop(memory) }`, count calls:
\* the first half of the calls, then the second half on its result
RECURSIVE pop_line(_, _, _)
pop_line(f, mem, count) ==
    IF count = 0 THEN f
    ELSE IF count = 1 THEN pop(f, mem)
    ELSE CHOOSE done \in {pop_line(half, mem, count - count \div 2) :
                              half \in {pop_line(f, mem, count \div 2)}} : TRUE

\* Graphics::new, as the Some(..) of GameBoy::new(true), and the None of
\* GameBoy::new(false)
new_graphics ==
    [some |-> TRUE, line_y |-> 0, last_timestamp |-> 0, bg_fifo |-> new_bg_fifo,
     last_ppu_mode |-> PPUMode(1, 153)]

NoGraphics == [some |-> FALSE]

\* Graphics::get_mode with an OAM scan of 10 machine cycles
get_mode_short_scan(g, clock_diff) ==
    [panic |-> clock_diff > SCANLINE_CYCLES,
     mode |-> IF g.line_y >= 144 THEN PPUMode(1, g.line_y)
              ELSE IF clock_diff <= 10 THEN PPUMode(2, g.line_y)
              ELSE IF clock_diff < 77 THEN PPUMode(3, g.line_y)
              ELSE PPUMode(0, g.line_y)]

\* Graphics::get_mode; the assert! fails when clock_diff > SCANLINE_CYCLES
get_mode(g, clock_diff) ==
    [panic |-> clock_diff > SCANLINE_CYCLES,
     mode |-> IF g.line_y >= 144 THEN PPUMode(1, g.line_y)
              ELSE IF clock_diff <= 20 THEN PPUMode(2, g.line_y)
              ELSE IF clock_diff < 77 THEN PPUMode(3, g.line_y)
              ELSE PPUMode(0, g.line_y)]

\* Graphics::set_ppu
set_ppu(ppu_mode, mem) ==
    LET stat_flag == BitAnd(read_byte_unsafe(mem, LCD_STATUS_ADDRESS), 252)
        new_stat_flag == BitOr(stat_flag, ppu_mode.num)
        int_flag == read_byte_unsafe(mem, INTERRUPT_FLAG_ADDRESS)
        requested ==
            \/ ppu_mode.num = 0 /\ get_memory_flag(stat_flag, MODE0_INT_FLAG)
            \/ ppu_mode.num = 1 /\ get_memory_flag(stat_flag, MODE1_INT_FLAG)
            \/ ppu_mode.num = 2 /\ get_memory_flag(stat_flag, MODE2_INT_FLAG)
        new_int_flag == IF requested THEN set_memory_flag(int_flag, LCD_FLAG)
                        ELSE int_flag
    IN  write_byte(write_byte(mem, INTERRUPT_FLAG_ADDRESS, new_int_flag),
                   LCD_STATUS_ADDRESS, new_stat_flag)

\* Graphics::set_lyc
set_lyc(g, mem) ==
    LET written == write_byte(mem, LY_ADDRESS, g.line_y % 256)
        stat_flag == read_byte_unsafe(written, LCD_STATUS_ADDRESS)
        flagged == write_byte(written, LCD_STATUS_ADDRESS,
                              set_memory_flag(stat_flag, LYC_EQ_LY_FLAG))
    IN  IF read_byte_unsafe(written, LYC_ADDRESS) # g.line_y THEN written
        ELSE IF get_memory_flag(stat_flag, LCY_INT_FLAG)
             THEN write_byte(flagged, INTERRUPT_FLAG_ADDRESS,
                      set_memory_flag(read_byte_unsafe(flagged, INTERRUPT_FLAG_ADDRESS),
                                      LCD_FLAG))
             ELSE flagged

\* the head of Graphics::render with the line wrapping after 154, not 153
advance_line_late_wrap(g, timestamp) ==
    LET stepped == IF timestamp - g.last_timestamp >= SCANLINE_CYCLES
                   THEN [g EXCEPT !.last_timestamp = @ + SCANLINE_CYCLES,
                                  !.line_y = @ + 1]
                   ELSE g
    IN  IF stepped.line_y > 154
        THEN [stepped EXCEPT !.line_y = 0, !.bg_fifo = new_bg_fifo]
        ELSE stepped

\* the head of Graphics::render: at most one step to the next line, and the
\* wrap to line 0 of the next frame
advance_line(g, timestamp) ==
    LET stepped == IF timestamp - g.last_timestamp >= SCANLINE_CYCLES
                   THEN [g EXCEPT !.last_timestamp = @ + SCANLINE_CYCLES,
                                  !.line_y = @ + 1]
                   ELSE g
    IN  IF stepped.line_y > 153
        THEN [stepped EXCEPT !.line_y = 0, !.bg_fifo = new_bg_fifo]
        ELSE stepped

\* the mode transition of Graphics::render, on a line already advanced:
\* the arm of `match (self.last_ppu_mode, current_ppu_mode)` that is taken,
\* then set_ppu
change_mode(g, mem, to) ==
    LET from == g.last_ppu_mode
        arm == CASE from.num = 1 /\ to.num = 2 /\ from.line = 153 /\ to.line = 0
                      -> "set_lyc"
                 [] from.num = 2 /\ to.num = 3 /\ from.line = to.line -> "draw"
                 [] from.num = 3 /\ to.num = 0 /\ from.line = to.line -> "nothing"
                 [] from.num = 0 /\ to.num = 2 /\ from.line + 1 = to.line -> "set_lyc"
                 [] from.num = 0 /\ to.num = 1 /\ from.line + 1 = to.line -> "set_lyc"
                 [] from.num = 1 /\ to.num = 1 /\ from.line + 1 = to.line -> "set_lyc"
                 [] OTHER -> "panic"
        drawn == IF arm = "draw"
                 THEN [g EXCEPT !.bg_fifo = pop_line(next_line(g.bg_fifo, mem), mem,
                                                     SCREEN_WIDTH)]
                 ELSE g
        told == IF arm = "set_lyc" THEN set_lyc(g, mem) ELSE mem
    IN  IF arm = "panic" \/ drawn.bg_fifo.panic
        THEN [panic |-> TRUE, graphics |-> g, memory |-> mem]
        ELSE [panic |-> FALSE,
              graphics |-> [drawn EXCEPT !.last_ppu_mode = to],
              memory |-> set_ppu(to, told)]

\* Graphics::render.  timestamp - self.last_timestamp is a u128 subtraction:
\* below zero it panics with overflow checks and wraps to a difference above
\* SCANLINE_CYCLES without them, which fails the assert! of get_mode.
render(g, mem, timestamp) ==
    LET advanced == advance_line(g, timestamp)
        current == get_mode(advanced, timestamp - advanced.last_timestamp)
    IN  IF timestamp < g.last_timestamp \/ current.panic
        THEN [panic |-> TRUE, graphics |-> g, memory |-> mem]
        ELSE IF advanced.last_ppu_mode = current.mode
             THEN [panic |-> FALSE, graphics |-> advanced, memory |-> mem]
             ELSE change_mode(advanced, mem, current.mode)

----------------------------------------------------------------------------
(* gb.rs: Debugger.  A breakpoint is Breakpoint::Inst(instruction) or      *)
(* Breakpoint::Addr(address).                                              *)

Breakpoint(kind, instruction, address) ==
    [kind |-> kind, instruction |-> instruction, address |-> address]

\* Debugger::new
new_debugger == [pause |-> FALSE, step |-> FALSE, breakpoints |-> {}]

\* Debugger::toggle_pause
toggle_pause(d) == [d EXCEPT !.pause = ~@]

\* Debugger::toggle_step leaving the pause flag as it is
toggle_step_keeping_pause(d) == [d EXCEPT !.step = TRUE]

\* Debugger::toggle_step
toggle_step(d) == [d EXCEPT !.step = TRUE, !.pause = FALSE]

\* Debugger::add_breakpoint
add_breakpoint(d, breakpoint) == [d EXCEPT !.breakpoints = @ \cup {breakpoint}]

\* Debugger::check_breakpoints; the unwrap() panics when decode returns None
check_breakpoints(d, c, mem) ==
    LET sized == decode(mem, c.pc)
    IN  IF sized.panic \/ ~sized.some THEN [panic |-> TRUE, hit |-> FALSE]
        ELSE [panic |-> FALSE,
              hit |-> \/ Breakpoint("Inst", sized.instruction, 0) \in d.breakpoints
                      \/ Breakpoint("Addr", Ins("-"), c.pc) \in d.breakpoints]

\* Debugger::check_pause letting a paused emulator through
check_pause_ignoring_pause(d, c, mem) ==
    IF d.step
    THEN [panic |-> FALSE, paused |-> FALSE,
          dbg |-> [d EXCEPT !.pause = TRUE, !.step = FALSE]]
    ELSE LET b == check_breakpoints(d, c, mem)
         IN  [panic |-> b.panic, paused |-> b.hit,
              dbg |-> IF b.hit THEN [d EXCEPT !.pause = TRUE] ELSE d]

\* Debugger::check_pause: the answer and the debugger it leaves
check_pause(d, c, mem) ==
    IF d.pause THEN [panic |-> FALSE, paused |-> TRUE, dbg |-> d]
    ELSE IF d.step
         THEN [panic |-> FALSE, paused |-> FALSE,
               dbg |-> [d EXCEPT !.pause = TRUE, !.step = FALSE]]
         ELSE LET b == check_breakpoints(d, c, mem)
              IN  [panic |-> b.panic, paused |-> b.hit,
                   dbg |-> IF b.hit THEN [d EXCEPT !.pause = TRUE] ELSE d]

----------------------------------------------------------------------------
(* Observation of the last operation.  kind names the operation, cpu and   *)
(* memory are the state it started from, sized is what decode returned,    *)
(* mid is the CPU between execute and handle_interrupts, rr and word are   *)
(* the arguments of set_register16.                                        *)

Observed(kind, c, mem, sized, mid, rr, word) ==
    [kind |-> kind, cpu |-> c, memory |-> mem, sized |-> sized,
     mid |-> mid, rr |-> rr, word |-> word]

NothingObserved(c, mem) == Observed("none", c, mem, NoneDecoded({}), c, "-", 0)

----------------------------------------------------------------------------
(* gb.rs: GameBoy::run, one iteration of the loop over the CPU of cpu.rs:  *)
(* cpu.execute(memory), cpu.handle_interrupts(memory), and the serial      *)
(* debug output, which clears a non-zero byte at 0xFF02 once printed.      *)
(* The loop also names cpu.halt and cpu.ime_step(): the CPU of cpu.rs has  *)
(* no halt field (no instruction sets one, HALT reaches the panic! of      *)
(* execute) and no ime_step, so every iteration takes the execute branch   *)
(* and IME is what execute left.                                           *)

SERIAL_CONTROL_ADDRESS == 65282

serial_output(mem) ==
    IF read_byte_unsafe(mem, SERIAL_CONTROL_ADDRESS) # 0
    THEN write_byte(mem, SERIAL_CONTROL_ADDRESS, 0)
    ELSE mem

RunIteration ==
    /\ status = "running"
    /\ steps < MaxSteps
    /\ \E x \in {execute(cpu, memory)} :
       \E i \in {handle_interrupts(x.cpu, x.memory)} :
           IF x.panic
           THEN /\ status' = "panicked"
                /\ UNCHANGED <<cpu, memory, graphics, dbg>>
                /\ last' = Observed("panic", cpu, memory, decode(memory, cpu.pc),
                                    cpu, "-", 0)
           ELSE /\ status' = "running"
                /\ cpu' = i.cpu
                /\ memory' = serial_output(i.memory)
                /\ last' = Observed("run", cpu, memory, decode(memory, cpu.pc),
                                    x.cpu, "-", 0)
    /\ steps' = steps + 1
    /\ UNCHANGED <<clock, joypad, graphics, dbg, overflow_checks>>

\* A program and the machine it starts on: three bytes at pc (an opcode
\* and two bytes that are its operands or the next opcodes), two bytes on
\* top of the stack, and the flags.
OperandSamples == {<<0, 0>>, <<5, 1>>, <<241, 193>>, <<254, 255>>}
StackSamples == {<<0, 2>>, <<255, 255>>}
FlagSamples == {0, 144}
StartSamples == {<<256, 53248>>, <<65533, 65534>>, <<512, 1>>}

LoadedMemory(pc, program, sp, stack) ==
    write_bytes(write_bytes(new_memory, sp, stack), pc, program)

Init ==
    /\ overflow_checks \in BOOLEAN
    /\ \E opcode \in Byte, operands \in OperandSamples, stack \in StackSamples,
          flags \in FlagSamples, start \in StartSamples :
          /\ cpu = [new_cpu EXCEPT !.f = flags, !.pc = start[1], !.sp = start[2],
                                   !.a = 90, !.b = 1, !.h = 192, !.l = 16]
          /\ memory = LoadedMemory(start[1], <<opcode>> \o operands, start[2], stack)
    /\ clock = new_clock
    /\ joypad = new_joypad
    /\ graphics = NoGraphics
    /\ dbg = new_debugger
    /\ status = "running"
    /\ last = NothingObserved(cpu, memory)
    /\ steps = 0

Next == RunIteration

Spec == Init /\ [][Next]_vars

----------------------------------------------------------------------------
(* The decoder on its own: SizedInstruction::decode(memory, address) for   *)
(* every opcode byte, and every second byte after the 0xCB prefix, at      *)
(* addresses in the middle and at the top of the address space.            *)

ByteSamples == {0, 32, 127, 128, 255}
AddressSamples == {0, 256, 65533, 65534, 65535}

Decode ==
    /\ status = "running"
    /\ last.kind = "none"
    /\ last' = Observed("decode", cpu, memory, decode(memory, cpu.pc), cpu, "-", 0)
    /\ steps' = steps + 1
    /\ UNCHANGED <<cpu, memory, clock, joypad, graphics, dbg, overflow_checks, status>>

InitDecode ==
    /\ overflow_checks \in BOOLEAN
    /\ \E address \in AddressSamples, opcode \in Byte, b1 \in Byte, b2 \in ByteSamples :
          /\ b1 \in ByteSamples \/ opcode = 203
          /\ cpu = [new_cpu EXCEPT !.pc = address]
          /\ memory = write_bytes(new_memory, address, <<opcode, b1, b2>>)
    /\ clock = new_clock
    /\ joypad = new_joypad
    /\ graphics = NoGraphics
    /\ dbg = new_debugger
    /\ status = "running"
    /\ last = NothingObserved(cpu, memory)
    /\ steps = 0

SpecDecode == InitDecode /\ [][Decode]_vars

----------------------------------------------------------------------------
(* The register file on its own: one CPU::set_register16(rr, word), for    *)
(* every pair and every 16-bit word, on a CPU whose registers hold 0xA5.   *)

SetRegister16 ==
    /\ status = "running"
    /\ last.kind = "none"
    /\ \E rr \in Register16, word \in Word :
          /\ cpu' = set_register16(cpu, rr, word)
          /\ last' = Observed("set_register16", cpu, memory, NoneDecoded({}),
                              cpu, rr, word)
    /\ steps' = steps + 1
    /\ UNCHANGED <<memory, clock, joypad, graphics, dbg, overflow_checks, status>>

InitRegisters ==
    /\ overflow_checks \in BOOLEAN
    /\ cpu = [new_cpu EXCEPT !.a = 165, !.f = 165, !.b = 165, !.c = 165,
                             !.d = 165, !.e = 165, !.h = 165, !.l = 165,
                             !.sp = 42405]
    /\ memory = new_memory
    /\ clock = new_clock
    /\ joypad = new_joypad
    /\ graphics = NoGraphics
    /\ dbg = new_debugger
    /\ status = "running"
    /\ last = NothingObserved(cpu, memory)
    /\ steps = 0

SpecRegisters == InitRegisters /\ [][SetRegister16]_vars

----------------------------------------------------------------------------
(* The 8-bit ALU: one CPU::execute of an ADD / XOR / OR opcode for every   *)
(* accumulator value, with the operand in every source register, in the    *)
(* immediate byte and in the memory cell at HL.                            *)

AluOpcodes == {128, 133, 134, 135, 198, 168, 174, 175, 176, 183}
AluOperandSamples == {0, 1, 15, 16, 90, 128, 255}
AluFlagSamples == {0, 240}

ExecuteAlu ==
    /\ status = "running"
    /\ last.kind = "none"
    /\ \E x \in {execute(cpu, memory)} :
           /\ status' = IF x.panic THEN "panicked" ELSE "running"
           /\ cpu' = x.cpu
           /\ memory' = x.memory
           /\ last' = Observed(IF x.panic THEN "panic" ELSE "execute", cpu, memory,
                               decode(memory, cpu.pc), x.cpu, "-", 0)
    /\ steps' = steps + 1
    /\ UNCHANGED <<clock, joypad, graphics, dbg, overflow_checks>>

InitAlu ==
    /\ overflow_checks \in BOOLEAN
    /\ \E opcode \in AluOpcodes, acc \in Byte, val \in AluOperandSamples,
          flags \in AluFlagSamples :
          /\ cpu = [new_cpu EXCEPT !.a = acc, !.f = flags, !.b = val, !.c = val,
                                   !.d = val, !.e = val, !.h = val, !.l = val]
          /\ memory = write_byte(write_bytes(new_memory, 256, <<opcode, val>>),
                                 val * 257, val)
    /\ clock = new_clock
    /\ joypad = new_joypad
    /\ graphics = NoGraphics
    /\ dbg = new_debugger
    /\ status = "running"
    /\ last = NothingObserved(cpu, memory)
    /\ steps = 0

SpecAlu == InitAlu /\ [][ExecuteAlu]_vars

----------------------------------------------------------------------------
(* Interrupt dispatch: loop iterations over NOP / EI / DI with every       *)
(* combination of IME and sampled IF (0xFF0F) and IE (0xFFFF) values.      *)

InterruptSamples == {0, 1, 2, 4, 5, 16, 24, 31, 224}
InterruptPrograms == {<<0, 0, 0>>, <<251, 0, 0>>, <<243, 0, 251>>}

InitInterrupts ==
    /\ overflow_checks \in BOOLEAN
    /\ \E ime \in BOOLEAN, if \in InterruptSamples, ie \in InterruptSamples,
          program \in InterruptPrograms :
          /\ cpu = [new_cpu EXCEPT !.ime = ime, !.pc = 512]
          /\ memory = write_byte(write_byte(write_bytes(new_memory, 512, program),
                                            INTERRUPT_FLAG_ADDRESS, if),
                                 INTERRUPT_ENABLE_ADDRESS, ie)
    /\ clock = new_clock
    /\ joypad = new_joypad
    /\ graphics = NoGraphics
    /\ dbg = new_debugger
    /\ status = "running"
    /\ last = NothingObserved(cpu, memory)
    /\ steps = 0

SpecInterrupts == InitInterrupts /\ [][RunIteration]_vars

----------------------------------------------------------------------------
(* The memory on its own: Memory::write_byte, Memory::read_byte and        *)
(* Memory::read_word at addresses of work RAM, of its echo, of the I/O     *)
(* page and at the top of the address space.                               *)

MemoryAddressSamples == {0, 49152, 56831, 57344, 65023, 65284, 65534, 65535}
MemoryByteSamples == {0, 1, 171}

\* the access, the memory it started from and what it returned
MemoryAccess(kind, mem, address, byte, result) ==
    [kind |-> kind, memory |-> mem, address |-> address, byte |-> byte,
     result |-> result]

WriteByte ==
    /\ steps < MaxSteps
    /\ \E address \in MemoryAddressSamples, byte \in MemoryByteSamples :
          /\ memory' = write_byte(memory, address, byte)
          /\ last' = MemoryAccess("write_byte", memory, address, byte,
                                  [some |-> address < MEMORY_SIZE, val |-> 0])
    /\ steps' = steps + 1
    /\ UNCHANGED <<cpu, clock, joypad, graphics, dbg, overflow_checks, status>>

ReadByte ==
    /\ steps < MaxSteps
    /\ \E address \in MemoryAddressSamples :
          last' = MemoryAccess("read_byte", memory, address, 0,
                               read_byte(memory, address))
    /\ steps' = steps + 1
    /\ UNCHANGED <<cpu, memory, clock, joypad, graphics, dbg, overflow_checks, status>>

ReadWord ==
    /\ steps < MaxSteps
    /\ \E address \in MemoryAddressSamples :
          last' = MemoryAccess("read_word", memory, address, 0,
                               read_word(memory, address))
    /\ steps' = steps + 1
    /\ UNCHANGED <<cpu, memory, clock, joypad, graphics, dbg, overflow_checks, status>>

InitMemory ==
    /\ overflow_checks \in BOOLEAN
    /\ cpu = new_cpu
    /\ memory = new_memory
    /\ clock = new_clock
    /\ joypad = new_joypad
    /\ graphics = NoGraphics
    /\ dbg = new_debugger
    /\ status = "running"
    /\ last = NothingObserved(cpu, memory)
    /\ steps = 0

NextMemory == WriteByte \/ ReadByte \/ ReadWord

SpecMemory == InitMemory /\ [][NextMemory]_vars

----------------------------------------------------------------------------
(* Loading: GameBoy::load_boot and GameBoy::load_rom of ROM images of      *)
(* lengths around the load offset and around the size of the memory, with  *)
(* non-zero bytes at their first, last and offset-adjacent indices.        *)

MaxLoads == 2
RomLengthSamples == {0, 1, 255, 256, 257, 65536, 65537}
RomIndexSamples == {0, 255, 256, 65535}

RomSamples ==
    UNION {{[len |-> len, cells |-> [i \in filled |-> 49]] :
               filled \in SUBSET {i \in RomIndexSamples : i < len}} :
           len \in RomLengthSamples}

\* the load, the memory it started from and the image it was given
Loaded(kind, mem, rom) == [kind |-> kind, memory |-> mem, rom |-> rom]

Load(kind, result, rom) ==
    /\ status' = IF result.panic THEN "panicked" ELSE "running"
    /\ memory' = result.memory
    /\ last' = Loaded(kind, memory, rom)
    /\ steps' = steps + 1
    /\ UNCHANGED <<cpu, clock, joypad, graphics, dbg, overflow_checks>>

LoadRom ==
    /\ status = "running"
    /\ steps < MaxLoads
    /\ \E rom \in RomSamples : Load("load_rom", gameboy_load_rom(memory, rom), rom)

LoadBoot ==
    /\ status = "running"
    /\ steps < MaxLoads
    /\ \E rom \in RomSamples : Load("load_boot", gameboy_load_boot(memory, rom), rom)

InitCartridge ==
    /\ overflow_checks \in BOOLEAN
    /\ cpu = new_cpu
    /\ memory = new_memory
    /\ clock = new_clock
    /\ joypad = new_joypad
    /\ graphics = NoGraphics
    /\ dbg = new_debugger
    /\ status = "running"
    /\ last = NothingObserved(cpu, memory)
    /\ steps = 0

NextCartridge == LoadRom \/ LoadBoot

SpecCartridge == InitCartridge /\ [][NextCartridge]_vars

----------------------------------------------------------------------------
(* The divider and the timer: Clock::tick(cycles, memory) called with      *)
(* small and large cycle counts, for every TAC setting, and the program    *)
(* writing to DIV through Memory::write_byte.  The observation keeps the   *)
(* memory at the start and the sum of the cycles ticked since.             *)

MaxCycles == 520
MaxDivWrites == 1
CycleSamples == {1, 64, 255}
TacSamples == {3, 4, 5, 6, 7}
TimaSamples == {0, 255}
TmaSamples == {0, 48}
InterruptFlagSamples == {0, 27}
DivWriteSamples == {0, 171}

ClockObserved(kind, clk, mem, cycles, byte, elapsed, div_written, start) ==
    [kind |-> kind, clock |-> clk, memory |-> mem, cycles |-> cycles,
     byte |-> byte, elapsed |-> elapsed, div_written |-> div_written,
     start |-> start]

Tick ==
    /\ status = "running"
    /\ \E cycles \in CycleSamples :
          /\ last.elapsed + cycles <= MaxCycles
          /\ \E x \in {tick(clock, cycles, memory)} :
                /\ clock' = x.clock
                /\ memory' = x.memory
          /\ last' = ClockObserved("tick", clock, memory, cycles, 0,
                                   last.elapsed + cycles, last.div_written,
                                   last.start)
    /\ UNCHANGED <<cpu, joypad, graphics, dbg, overflow_checks, status, steps>>

WriteDiv ==
    /\ status = "running"
    /\ steps < MaxDivWrites
    /\ \E byte \in DivWriteSamples :
          /\ memory' = write_byte(memory, DIV_ADDRESS, byte)
          /\ last' = ClockObserved("write_div", clock, memory, 0, byte,
                                   last.elapsed, TRUE, last.start)
    /\ steps' = steps + 1
    /\ UNCHANGED <<cpu, clock, joypad, graphics, dbg, overflow_checks, status>>

InitClock ==
    /\ overflow_checks \in BOOLEAN
    /\ cpu = new_cpu
    /\ \E tac \in TacSamples, tima \in TimaSamples, tma \in TmaSamples,
          if \in InterruptFlagSamples :
          memory = write_byte(write_byte(write_byte(write_byte(new_memory,
                       TAC_ADDRESS, tac), TIMA_ADDRESS, tima), TMA_ADDRESS, tma),
                       INTERRUPT_FLAG_ADDRESS, if)
    /\ clock = new_clock
    /\ joypad = new_joypad
    /\ graphics = NoGraphics
    /\ dbg = new_debugger
    /\ status = "running"
    /\ last = ClockObserved("none", clock, memory, 0, 0, 0, FALSE, memory)
    /\ steps = 0

NextClock == Tick \/ WriteDiv

SpecClock == InitClock /\ [][NextClock]_vars

----------------------------------------------------------------------------
(* The joypad: key presses and releases (Joypad::handle_button), register  *)
(* refreshes (Joypad::update) and the program selecting a button group by  *)
(* writing 0xFF00, and acknowledging interrupts by writing 0 to 0xFF0F,    *)
(* through Memory::write_byte.  The observation also keeps the keys that   *)
(* are physically down after the operation and whether the key of the     *)
(* event was down before it.                                               *)

SelectionSamples == {0, 16, 32, 48}

JoypadObserved(kind, jp, mem, keycode, down, byte, held, was_held) ==
    [kind |-> kind, joypad |-> jp, memory |-> mem, keycode |-> keycode,
     down |-> down, byte |-> byte, held |-> held, was_held |-> was_held]

WriteJoypadRegister ==
    /\ steps < MaxSteps
    /\ \E byte \in SelectionSamples :
          /\ memory' = write_byte(memory, JOYPAD_REGISTER_ADDRESS, byte)
          /\ last' = JoypadObserved("write_joypad", joypad, memory, "None", FALSE,
                                    byte, last.held, FALSE)
    /\ steps' = steps + 1
    /\ UNCHANGED <<cpu, clock, joypad, graphics, dbg, overflow_checks, status>>

JoypadUpdate ==
    /\ steps < MaxSteps
    /\ memory' = update(joypad, memory)
    /\ last' = JoypadObserved("update", joypad, memory, "None", FALSE, 0,
                              last.held, FALSE)
    /\ steps' = steps + 1
    /\ UNCHANGED <<cpu, clock, joypad, graphics, dbg, overflow_checks, status>>

WriteInterruptFlag ==
    /\ steps < MaxSteps
    /\ memory' = write_byte(memory, INTERRUPT_FLAG_ADDRESS, 0)
    /\ last' = JoypadObserved("write_if", joypad, memory, "None", FALSE, 0,
                              last.held, FALSE)
    /\ steps' = steps + 1
    /\ UNCHANGED <<cpu, clock, joypad, graphics, dbg, overflow_checks, status>>

HandleButton ==
    /\ steps < MaxSteps
    /\ \E keycode \in Keycode, down \in BOOLEAN :
          \E x \in {handle_button(joypad, keycode, down, memory)} :
              /\ joypad' = x.joypad
              /\ memory' = x.memory
              /\ last' = JoypadObserved("handle_button", joypad, memory, keycode,
                                        down, 0,
                                        IF down THEN last.held \cup {keycode}
                                        ELSE last.held \ {keycode},
                                        keycode \in last.held)
    /\ steps' = steps + 1
    /\ UNCHANGED <<cpu, clock, graphics, dbg, overflow_checks, status>>

InitJoypad ==
    /\ overflow_checks \in BOOLEAN
    /\ cpu = new_cpu
    /\ memory = new_memory
    /\ clock = new_clock
    /\ joypad = new_joypad
    /\ graphics = NoGraphics
    /\ dbg = new_debugger
    /\ status = "running"
    /\ last = JoypadObserved("none", joypad, memory, "None", FALSE, 0, {}, FALSE)
    /\ steps = 0

NextJoypad == WriteJoypadRegister \/ JoypadUpdate \/ WriteInterruptFlag \/ HandleButton

SpecJoypad == InitJoypad /\ [][NextJoypad]_vars

----------------------------------------------------------------------------
(* Vocabulary of the properties: the bytes and flags of the observed       *)
(* operation, computed arithmetically from the observed pre-state.         *)

\* the byte of the pre-state memory at pc + k
ByteAt(k) == read_byte_unsafe(last.memory, (last.cpu.pc + k) % 65536)
Opcode == ByteAt(0)
Imm8 == ByteAt(1)
Imm16 == ByteAt(1) + 256 * ByteAt(2)
SignedImm8 == IF ByteAt(1) < 128 THEN ByteAt(1) ELSE ByteAt(1) - 256

ObservedOp == last.sized.instruction.op
RanInstruction == last.kind \in {"run", "execute"}

\* flag bits of an F value
FlagZ(f) == (f \div 128) % 2 = 1
FlagN(f) == (f \div 64) % 2 = 1
FlagH(f) == (f \div 32) % 2 = 1
FlagC(f) == (f \div 16) % 2 = 1
Flags(z, n, h, c) ==
    (IF z THEN 128 ELSE 0) + (IF n THEN 64 ELSE 0) +
    (IF h THEN 32 ELSE 0) + (IF c THEN 16 ELSE 0)

\* the condition of the observed JR cc / CALL cc, on the flags it started with
ConditionHeld ==
    CASE last.sized.instruction.cc = "NonZero" -> ~FlagZ(last.cpu.f)
      [] last.sized.instruction.cc = "Zero" -> FlagZ(last.cpu.f)
      [] last.sized.instruction.cc = "NotCarry" -> ~FlagC(last.cpu.f)
      [] last.sized.instruction.cc = "Carry" -> FlagC(last.cpu.f)
      [] OTHER -> FALSE

\* the word on top of the stack the observed instruction started with
StackTop ==
    read_byte_unsafe(last.memory, last.cpu.sp)
    + 256 * read_byte_unsafe(last.memory, (last.cpu.sp + 1) % 65536)

----------------------------------------------------------------------------
(* C1 *)

\* C1: after any sequence of executed instructions (POP AF with arbitrary
\* stack bytes included) the low nibble of the flag register is zero.
C1_FlagLowNibbleZero == cpu.f % 16 = 0

----------------------------------------------------------------------------
(* C2 *)

TakenTransfer ==
    \/ ObservedOp \in {"JP_NN", "JR", "CALL", "RET"}
    \/ ObservedOp \in {"JR_CC", "CALL_CC"} /\ ConditionHeld

TransferTarget ==
    CASE ObservedOp \in {"JP_NN", "CALL", "CALL_CC"} -> Imm16
      [] ObservedOp \in {"JR", "JR_CC"} ->
            (last.cpu.pc + 2 + SignedImm8 + 65536) % 65536
      [] ObservedOp = "RET" -> StackTop

\* C2: for every instruction that execute runs to completion, PC afterwards
\* is PC before plus the decoded size, unless the instruction is a taken
\* JP / JR / CALL / RET, and then PC is exactly the instruction's target; a
\* not-taken JR cc or CALL cc advances PC by its size and leaves SP and
\* memory unchanged.
C2_PcAdvance ==
    last.kind = "run" =>
        /\ TakenTransfer => last.mid.pc = TransferTarget
        /\ ~TakenTransfer => last.mid.pc = (last.cpu.pc + last.sized.size) % 65536
        /\ (ObservedOp \in {"JR_CC", "CALL_CC"} /\ ~ConditionHeld) =>
              /\ last.mid.sp = last.cpu.sp
              /\ memory = last.memory

C2_Witness ==
    /\ last.kind = "run"
    /\ ObservedOp = "CALL_CC"
    /\ ~ConditionHeld
    /\ last.mid.pc = last.cpu.pc + 3

----------------------------------------------------------------------------
(* C3 *)

\* C3: for every register pair rr of BC, DE, HL, SP, AF and every 16-bit
\* value v, set_register16(rr, v) followed by get_register16(rr) returns v,
\* and every other pair (and PC, IME) is left unchanged.
C3_Register16RoundTrip ==
    last.kind = "set_register16" =>
        /\ get_register16(cpu, last.rr) = last.word
        /\ \A other \in Register16 \ {last.rr} :
              get_register16(cpu, other) = get_register16(last.cpu, other)
        /\ cpu.pc = last.cpu.pc
        /\ cpu.ime = last.cpu.ime

C3_Witness ==
    /\ last.kind = "set_register16"
    /\ last.rr = "AF"
    /\ last.word = 4671
    /\ last.cpu.f = 165
    /\ cpu.a = 18
    /\ cpu.f = 63

----------------------------------------------------------------------------
(* C4, C5 *)

IllegalOpcodes == {211, 219, 221, 227, 228, 235, 236, 237, 244, 252, 253}

\* the three bytes at the decoded address are inside the array and the
\* address arithmetic does not leave the u16 range
OperandsReadable == last.cpu.pc + 2 <= 65535

\* C4: decoding any of the opcode bytes 0xD3, 0xDB, 0xDD, 0xE3, 0xE4, 0xEB,
\* 0xEC, 0xED, 0xF4, 0xFC, 0xFD returns the unknown-opcode error (no
\* instruction), whatever bytes follow.
C4_IllegalOpcodesRejected ==
    (last.kind = "decode" /\ Opcode \in IllegalOpcodes) =>
        (~last.sized.some /\ ~last.sized.panic)

\* C5: every primary opcode byte other than the 11 illegal ones (STOP 0x10
\* and CPL 0x2F in particular) and every second byte after the 0xCB prefix
\* decodes to an instruction, when the operand bytes are readable.
C5_LegalOpcodesDecode ==
    (last.kind = "decode" /\ Opcode \notin IllegalOpcodes /\ OperandsReadable) =>
        last.sized.some

----------------------------------------------------------------------------
(* C6 *)

Imm16Ops == {"LD_A_NN", "LD_NN_A", "LD_RR_NN", "LD_NN_SP", "CALL", "CALL_CC",
             "JP_NN", "JP_CC_NN"}
SignedImm8Ops == {"LD_HL_SP", "ADD_SP_E", "JR", "JR_CC"}
Imm8Ops == {"LD_R_N", "LD_HL_N", "LDH_A_N", "LDH_N_A", "ADD_N", "SUB_N", "AND_N",
            "OR_N", "ADC_N", "SBC_N", "XOR_N", "CP_N"}

OperandBytes ==
    IF ObservedOp \in Imm16Ops THEN 2
    ELSE IF ObservedOp \in SignedImm8Ops \cup Imm8Ops \/ Opcode = 203 THEN 1
    ELSE 0

\* C6: for every opcode that decodes, the size is 1 plus the number of
\* operand bytes read (1: no operand; 2: imm8, e8 or 0xCB prefix; 3:
\* imm16), decode reads exactly the bytes address .. address + size - 1 and
\* so never past address + 2, a 16-bit immediate is assembled little-endian
\* and an e8 operand is the byte read as a two's-complement value.
C6_DecodeSizeAndOperands ==
    (last.kind = "decode" /\ last.sized.some) =>
        /\ last.sized.size = 1 + OperandBytes
        /\ last.sized.reads =
              {(last.cpu.pc + k) % 65536 : k \in 0..(last.sized.size - 1)}
        /\ ObservedOp \in Imm16Ops => last.sized.instruction.n = Imm16
        /\ ObservedOp \in SignedImm8Ops => last.sized.instruction.n = SignedImm8
        /\ ObservedOp \in Imm8Ops => last.sized.instruction.n = Imm8

C6_Witness ==
    /\ last.kind = "decode"
    /\ last.sized.some
    /\ ObservedOp = "LD_A_NN"
    /\ last.sized.size = 3
    /\ last.sized.instruction.n = 65312

----------------------------------------------------------------------------
(* C7, C8 *)

\* the operand of the observed ALU instruction: the source register, the
\* immediate byte or the memory cell at HL
AluOperand ==
    CASE last.sized.instruction.r1 = "A" -> last.cpu.a
      [] last.sized.instruction.r1 = "B" -> last.cpu.b
      [] last.sized.instruction.r1 = "C" -> last.cpu.c
      [] last.sized.instruction.r1 = "D" -> last.cpu.d
      [] last.sized.instruction.r1 = "E" -> last.cpu.e
      [] last.sized.instruction.r1 = "H" -> last.cpu.h
      [] last.sized.instruction.r1 = "L" -> last.cpu.l
      [] ObservedOp \in Imm8Ops -> Imm8
      [] OTHER -> read_byte_unsafe(last.memory, last.cpu.l + 256 * last.cpu.h)

\* every register except A and F holds what it held before
OtherRegistersKept ==
    /\ cpu.b = last.cpu.b /\ cpu.c = last.cpu.c
    /\ cpu.d = last.cpu.d /\ cpu.e = last.cpu.e
    /\ cpu.h = last.cpu.h /\ cpu.l = last.cpu.l
    /\ cpu.sp = last.cpu.sp

\* C7: ADD A,r and ADD A,n set A to (A + operand) mod 256, leave the source
\* register (every register but A and F) unchanged, and set Z iff the
\* result is 0, N = 0, H iff (A & 0xF) + (operand & 0xF) > 0xF and C iff
\* A + operand > 0xFF.
C7_AddFlags ==
    (last.kind = "execute" /\ ObservedOp \in {"ADD_R", "ADD_N"}) =>
        /\ cpu.a = (last.cpu.a + AluOperand) % 256
        /\ OtherRegistersKept
        /\ cpu.f = Flags((last.cpu.a + AluOperand) % 256 = 0, FALSE,
                         (last.cpu.a % 16) + (AluOperand % 16) > 15,
                         last.cpu.a + AluOperand > 255)

C7_Witness ==
    /\ last.kind = "execute"
    /\ ObservedOp = "ADD_R"
    /\ last.sized.instruction.r1 = "B"
    /\ last.cpu.a = 15
    /\ last.cpu.b = 1
    /\ cpu.a = 16
    /\ cpu.f = 32

\* C8: ADD A,(HL) (opcode 0x86) sets A to (A + memory[HL]) mod 256 and
\* leaves H and L unchanged; it does not hard-fault.
C8_AddHlExecutes ==
    (last.kind # "none" /\ Opcode = 134) =>
        /\ status = "running"
        /\ cpu.a = (last.cpu.a + AluOperand) % 256
        /\ cpu.h = last.cpu.h
        /\ cpu.l = last.cpu.l

----------------------------------------------------------------------------
(* C9 *)

\* the bitwise exclusive or of two bytes, bit by bit
XorBytes(x, y) ==
    LET bit(v, k) == (v \div (2 ^ k)) % 2
        b(k) == IF bit(x, k) # bit(y, k) THEN 2 ^ k ELSE 0
    IN  b(0) + b(1) + b(2) + b(3) + b(4) + b(5) + b(6) + b(7)

OrBytes(x, y) ==
    LET bit(v, k) == (v \div (2 ^ k)) % 2
        b(k) == IF bit(x, k) = 1 \/ bit(y, k) = 1 THEN 2 ^ k ELSE 0
    IN  b(0) + b(1) + b(2) + b(3) + b(4) + b(5) + b(6) + b(7)

\* C9: XOR A,r and XOR A,(HL) set A to A xor operand and set Z iff the
\* result is 0, N = 0, H = 0 and C = 0 whatever the flags were before (XOR A
\* leaves A = 0x00 and F = 0x80); OR A,r sets the same flag pattern.
C9_XorOrFlags ==
    /\ (last.kind = "execute" /\ ObservedOp \in {"XOR_R", "XOR_HL"}) =>
          /\ cpu.a = XorBytes(last.cpu.a, AluOperand)
          /\ cpu.f = Flags(cpu.a = 0, FALSE, FALSE, FALSE)
    /\ (last.kind = "execute" /\ ObservedOp = "OR_R") =>
          /\ cpu.a = OrBytes(last.cpu.a, AluOperand)
          /\ cpu.f = Flags(cpu.a = 0, FALSE, FALSE, FALSE)

----------------------------------------------------------------------------
(* C10 *)

\* pending = IF & IE & 0x1F when handle_interrupts is called
PendingBits ==
    {k \in 0..4 :
        /\ (read_byte_unsafe(last.memory, INTERRUPT_FLAG_ADDRESS) \div (2 ^ k)) % 2 = 1
        /\ (read_byte_unsafe(last.memory, INTERRUPT_ENABLE_ADDRESS) \div (2 ^ k)) % 2 = 1}

LowestPending == CHOOSE k \in PendingBits : \A j \in PendingBits : k <= j

\* C10: when interrupts are checked after an instruction with IME set and
\* pending non-zero, the lowest pending bit is serviced: the bit is cleared
\* in IF, IME is cleared, PC is pushed (high byte at SP-1, low byte at
\* SP-2, SP decreased by 2) and PC becomes 0x40 + 8 * bit; with IME clear or
\* pending zero, PC, SP, IF and the stack are unchanged.
C10_InterruptDispatch ==
    last.kind = "run" =>
        IF last.mid.ime /\ PendingBits # {}
        THEN /\ read_byte_unsafe(memory, INTERRUPT_FLAG_ADDRESS) =
                   read_byte_unsafe(last.memory, INTERRUPT_FLAG_ADDRESS)
                   - 2 ^ LowestPending
             /\ ~cpu.ime
             /\ cpu.sp = last.mid.sp - 2
             /\ read_byte_unsafe(memory, last.mid.sp - 1) = last.mid.pc \div 256
             /\ read_byte_unsafe(memory, last.mid.sp - 2) = last.mid.pc % 256
             /\ cpu.pc = 64 + 8 * LowestPending
        ELSE /\ cpu.pc = last.mid.pc
             /\ cpu.sp = last.mid.sp
             /\ memory = last.memory

----------------------------------------------------------------------------
(* C11: EI latency *)

\* C11: an EI executed with IME clear leaves IME clear when the instruction
\* completes (IME is raised only after the following instruction), and a DI
\* leaves IME clear when it completes.
C11_EiDelayedDiImmediate ==
    RanInstruction =>
        /\ (ObservedOp = "EI" /\ ~last.cpu.ime) => ~last.mid.ime
        /\ ObservedOp = "DI" => ~last.mid.ime

----------------------------------------------------------------------------
(* C12: HALT *)

\* C12: an iteration that fetches HALT puts the CPU in the halted state, from
\* which a pending enabled interrupt wakes it: the emulator is still running
\* after the iteration.
C12_HaltEnteredAndLeft ==
    (/\ last.kind \in {"run", "panic"}
     /\ ~last.sized.panic
     /\ last.sized.some
     /\ ObservedOp = "HALT") => status = "running"

----------------------------------------------------------------------------
(* C13: echo RAM *)

WorkRam == 49152..56831
EchoRam == 57344..65023

\* C13: every address of 0xC000-0xDDFF reads the same byte as the address
\* 0x2000 above it.  (Cells outside DOMAIN memory read 0, so comparing the
\* cells of DOMAIN memory with their partners covers every address.)
C13_EchoRam ==
    \A x \in DOMAIN memory :
        /\ x \in WorkRam =>
              read_byte(memory, x + 8192).val = read_byte(memory, x).val
        /\ x \in EchoRam =>
              read_byte(memory, x - 8192).val = read_byte(memory, x).val

----------------------------------------------------------------------------
(* C15: total memory accesses *)

\* C15: an 8-bit read, an 8-bit write and a 16-bit read succeed at every
\* 16-bit address, 0xFFFF included.
C15_AccessesTotal ==
    last.kind \in {"read_byte", "write_byte", "read_word"} => last.result.some

----------------------------------------------------------------------------
(* C16: cartridge loading *)

\* C16: loading a cartridge of length n <= 0x10000 does not abort, and
\* afterwards memory[i] = cartridge[i] for every i < n.  (Indices outside
\* DOMAIN memory and DOMAIN cells hold 0 on both sides.)
C16_CartridgeAtZero ==
    (last.kind = "load_rom" /\ last.rom.len <= MEMORY_SIZE) =>
        /\ status = "running"
        /\ \A i \in DOMAIN memory \cup DOMAIN last.rom.cells :
              i < last.rom.len => read_byte_unsafe(memory, i) = RomByte(last.rom, i)

----------------------------------------------------------------------------
(* The timer registers as the last observation of SpecClock saw them *)

Div == read_byte(memory, DIV_ADDRESS).val
Tima == read_byte(memory, TIMA_ADDRESS).val
Tma == read_byte(memory, TMA_ADDRESS).val
Tac == read_byte(memory, TAC_ADDRESS).val
TimerEnabled == (Tac \div 4) % 2 = 1

\* T-cycles per TIMA increment for TAC bits 0-1
TimaPeriod ==
    CASE Tac % 4 = 0 -> 1024
      [] Tac % 4 = 1 -> 16
      [] Tac % 4 = 2 -> 64
      [] Tac % 4 = 3 -> 256

\* T-cycles elapsed since the start: four for each machine cycle ticked
ElapsedTCycles == 4 * last.elapsed

----------------------------------------------------------------------------
(* C14: writes to DIV *)

\* C14: after a write of any value to DIV, DIV reads 0 and the divider
\* counter is 0.
C14_DivWriteResets ==
    last.kind = "write_div" => (Div = 0 /\ clock.div_counter = 0)

----------------------------------------------------------------------------
(* C17: TIMA rate *)

\* C17: with the timer enabled, TIMA has been incremented once for every
\* full 1024 / 16 / 64 / 256 T-cycles elapsed, whatever the sizes of the
\* ticks that made up the elapsed time (stated while TIMA has not overflowed).
C17_TimaRate ==
    (/\ last.kind \in {"tick", "write_div"}
     /\ TimerEnabled
     /\ read_byte(last.start, TIMA_ADDRESS).val + ElapsedTCycles \div TimaPeriod <= 255) =>
        Tima = read_byte(last.start, TIMA_ADDRESS).val + ElapsedTCycles \div TimaPeriod

\* 2048 T-cycles at 4096 Hz, the last of them in a tick of one machine cycle
C17_Witness ==
    /\ last.kind = "tick"
    /\ last.cycles = 1
    /\ Tac = 4
    /\ last.elapsed = 512
    /\ Tima = 2

----------------------------------------------------------------------------
(* C18: TIMA overflow *)

\* the timer counter after the last tick's cycles were added, before the loop
CounterDue == last.clock.timer_counter + 4 * last.cycles

\* C18: when a tick takes TIMA from 0xFF to 0x00 (one increment, from 0xFF),
\* TIMA reads 0 and IF is untouched until 4 T-cycles have passed since the
\* overflow; from then on TIMA holds TMA and IF has gained exactly bit 2.
C18_TimaReloadDelayed ==
    (/\ last.kind = "tick"
     /\ TimerEnabled
     /\ read_byte(last.memory, TIMA_ADDRESS).val = 255
     /\ CounterDue >= TimaPeriod
     /\ CounterDue < 2 * TimaPeriod) =>
        IF CounterDue - TimaPeriod < 4
        THEN /\ Tima = 0
             /\ read_byte(memory, INTERRUPT_FLAG_ADDRESS).val =
                   read_byte(last.memory, INTERRUPT_FLAG_ADDRESS).val
        ELSE /\ Tima = Tma
             /\ read_byte(memory, INTERRUPT_FLAG_ADDRESS).val =
                   BitOr(read_byte(last.memory, INTERRUPT_FLAG_ADDRESS).val, 4)

----------------------------------------------------------------------------
(* C19: DIV rate *)

\* C19: while the program has not written DIV, DIV has been incremented once
\* for every 256 T-cycles (64 machine cycles) elapsed, modulo 256, whether
\* or not the timer is enabled.
C19_DivRate ==
    (last.kind = "tick" /\ ~last.div_written) =>
        Div = (read_byte(last.start, DIV_ADDRESS).val + ElapsedTCycles \div 256) % 256

----------------------------------------------------------------------------
(* C20: joypad register *)

JoypadRegister(mem) == read_byte(mem, JOYPAD_REGISTER_ADDRESS).val

\* C20: a joypad update leaves the high nibble of 0xFF00, and with it the
\* group selection in bits 4-5, as the program wrote it: only the low
\* nibble changes.
C20_JoypadSelectionKept ==
    last.kind = "update" =>
        JoypadRegister(memory) \div 16 = JoypadRegister(last.memory) \div 16

\* the joypad request bit of IF (0xFF0F)
JoypadRequested(mem) ==
    get_memory_flag(read_byte_unsafe(mem, INTERRUPT_FLAG_ADDRESS), JOYPAD_FLAG)

\* C21: every new press of a recognised button (the key was up and goes
\* down), also while another button is held, leaves IF bit 4 set; a
\* release does not change IF bit 4.
C21_PressRequestsInterrupt ==
    (last.kind = "handle_button" /\ last.keycode \in GameKeys) =>
        /\ (last.down /\ ~last.was_held) => JoypadRequested(memory)
        /\ ~last.down => (JoypadRequested(memory) = JoypadRequested(last.memory))

----------------------------------------------------------------------------
(* Subtraction, comparison, increment and decrement: one instruction per   *)
(* behaviour, every accumulator value, the sampled operand in every other  *)
(* register, in both bytes of SP and in the immediate byte.                *)

SubIncDecOpcodes == {144, 151, 214, 254, 4, 60, 5, 61, 3, 51, 11, 59}

InitSubIncDec ==
    /\ overflow_checks \in BOOLEAN
    /\ \E opcode \in SubIncDecOpcodes, acc \in Byte, val \in AluOperandSamples,
          flags \in AluFlagSamples :
          /\ cpu = [new_cpu EXCEPT !.a = acc, !.f = flags, !.b = val, !.c = val,
                                   !.d = val, !.e = val, !.h = val, !.l = val,
                                   !.sp = val * 257]
          /\ memory = write_bytes(new_memory, 256, <<opcode, val>>)
    /\ clock = new_clock
    /\ joypad = new_joypad
    /\ graphics = NoGraphics
    /\ dbg = new_debugger
    /\ status = "running"
    /\ last = NothingObserved(cpu, memory)
    /\ steps = 0

SpecSubIncDec == InitSubIncDec /\ [][ExecuteAlu]_vars

\* C29: SUB A,r / SUB A,n / CP A,n set Z iff (A - operand) mod 256 is 0,
\* N = 1, H iff (A & 0xF) < (operand & 0xF) and C iff operand > A; SUB stores
\* the result in A, CP leaves A unchanged.
C29_SubCpFlags ==
    (last.kind = "execute" /\ ObservedOp \in {"SUB_R", "SUB_N", "CP_N"}) =>
        /\ cpu.f = Flags((last.cpu.a - AluOperand + 256) % 256 = 0, TRUE,
                         (last.cpu.a % 16) < (AluOperand % 16),
                         AluOperand > last.cpu.a)
        /\ cpu.a = IF ObservedOp = "CP_N" THEN last.cpu.a
                   ELSE (last.cpu.a - AluOperand + 256) % 256
        /\ OtherRegistersKept

C29_Witness ==
    /\ last.kind = "execute"
    /\ ObservedOp = "SUB_R"
    /\ last.sized.instruction.r1 = "B"
    /\ last.cpu.a = 16
    /\ last.cpu.b = 1
    /\ cpu.a = 15
    /\ cpu.f = 96

\* the register an INC_R / DEC_R names, in a CPU value
IncDecRegister(c) ==
    IF last.sized.instruction.r1 = "A" THEN c.a ELSE c.b

\* the register pair an INC_RR / DEC_RR names, in a CPU value
IncDecRegister16(c) ==
    IF last.sized.instruction.rr = "SP" THEN c.sp ELSE c.c + 256 * c.b

\* C30: INC r8 / DEC r8 wrap modulo 256, set Z iff the result is 0, N to 0
\* (INC) or 1 (DEC), H iff the low nibble of the old value was 0xF (INC) or
\* 0x0 (DEC) and leave the carry flag unchanged; INC / DEC r16 wrap modulo
\* 65536 and modify no flag.
C30_IncDec ==
    /\ (last.kind = "execute" /\ ObservedOp = "INC_R") =>
           /\ IncDecRegister(cpu) = (IncDecRegister(last.cpu) + 1) % 256
           /\ cpu.f = Flags(IncDecRegister(cpu) = 0, FALSE,
                            IncDecRegister(last.cpu) % 16 = 15,
                            FlagC(last.cpu.f))
    /\ (last.kind = "execute" /\ ObservedOp = "DEC_R") =>
           /\ IncDecRegister(cpu) = (IncDecRegister(last.cpu) + 255) % 256
           /\ cpu.f = Flags(IncDecRegister(cpu) = 0, TRUE,
                            IncDecRegister(last.cpu) % 16 = 0,
                            FlagC(last.cpu.f))
    /\ (last.kind = "execute" /\ ObservedOp = "INC_RR") =>
           /\ IncDecRegister16(cpu) = (IncDecRegister16(last.cpu) + 1) % 65536
           /\ cpu.f = last.cpu.f
    /\ (last.kind = "execute" /\ ObservedOp = "DEC_RR") =>
           /\ IncDecRegister16(cpu) = (IncDecRegister16(last.cpu) + 65535) % 65536
           /\ cpu.f = last.cpu.f

C30_Witness ==
    /\ last.kind = "execute"
    /\ ObservedOp = "DEC_R"
    /\ last.sized.instruction.r1 = "B"
    /\ last.cpu.b = 1
    /\ last.cpu.f = 0
    /\ cpu.b = 0
    /\ cpu.f = 192

----------------------------------------------------------------------------
(* The PPU on its own: Graphics::render(memory, timestamp) called with a   *)
(* time stamp that advances by the length of the shortest and of the       *)
(* longest instruction, over more than one frame, for the sampled LCDC,    *)
(* STAT and LYC settings, and the program acknowledging the requested      *)
(* interrupts by writing 0 to IF through Memory::write_byte.               *)

MaxTimestamp == 17700
AdvanceSamples == {1, 6}

\* <<LCDC, STAT, LYC>>
LcdSamples == {<<145, 0, 1>>, <<145, 16, 1>>, <<145, 64, 1>>, <<0, 0, 0>>}

\* the operation, the PPU and the memory it started from, and the time
\* stamp of the last render
GraphicsObserved(kind, g, mem, timestamp) ==
    [kind |-> kind, graphics |-> g, memory |-> mem, timestamp |-> timestamp]

Render ==
    /\ status = "running"
    /\ \E cycles \in AdvanceSamples :
          /\ last.timestamp + cycles <= MaxTimestamp
          /\ \E x \in {render(graphics, memory, last.timestamp + cycles)} :
                /\ status' = IF x.panic THEN "panicked" ELSE "running"
                /\ graphics' = x.graphics
                /\ memory' = x.memory
                /\ last' = GraphicsObserved(IF x.panic THEN "panic" ELSE "render",
                                            graphics, memory, last.timestamp + cycles)
    /\ UNCHANGED <<cpu, clock, joypad, dbg, overflow_checks, steps>>

AcknowledgeInterrupts ==
    /\ status = "running"
    /\ read_byte_unsafe(memory, INTERRUPT_FLAG_ADDRESS) # 0
    /\ memory' = write_byte(memory, INTERRUPT_FLAG_ADDRESS, 0)
    /\ last' = GraphicsObserved("write_if", graphics, memory, last.timestamp)
    /\ UNCHANGED <<cpu, clock, joypad, graphics, dbg, overflow_checks, status, steps>>

InitGraphics ==
    /\ overflow_checks \in BOOLEAN
    /\ cpu = new_cpu
    /\ \E lcd \in LcdSamples :
          memory = write_byte(write_byte(write_byte(new_memory,
                       LCDC_ADDRESS, lcd[1]), LCD_STATUS_ADDRESS, lcd[2]),
                       LYC_ADDRESS, lcd[3])
    /\ clock = new_clock
    /\ joypad = new_joypad
    /\ graphics = new_graphics
    /\ dbg = new_debugger
    /\ status = "running"
    /\ last = GraphicsObserved("none", graphics, memory, 0)
    /\ steps = 0

NextGraphics == Render \/ AcknowledgeInterrupts

SpecGraphics == InitGraphics /\ [][NextGraphics]_vars

\* the registers of the PPU and the request bits, in a memory
Ly(mem) == read_byte_unsafe(mem, LY_ADDRESS)
Lyc(mem) == read_byte_unsafe(mem, LYC_ADDRESS)
Stat(mem) == read_byte_unsafe(mem, LCD_STATUS_ADDRESS)
Lcdc(mem) == read_byte_unsafe(mem, LCDC_ADDRESS)
VBlankRequested(mem) ==
    get_memory_flag(read_byte_unsafe(mem, INTERRUPT_FLAG_ADDRESS), 1)
StatRequested(mem) ==
    get_memory_flag(read_byte_unsafe(mem, INTERRUPT_FLAG_ADDRESS), 2)

\* C22: LY steps through 0..153 and back to 0, one step every 114 machine
\* cycles (456 T-cycles), so that a frame lasts 154 * 114 machine cycles
\* (70224 T-cycles); LY changes only at the start of a scanline: after
\* every render the line counter and the LY register are the number of
\* whole scanlines elapsed, modulo 154.
C22_LyTiming ==
    last.kind = "render" =>
        /\ graphics.line_y = (last.timestamp \div SCANLINE_CYCLES) % 154
        /\ Ly(memory) = graphics.line_y
        /\ graphics.last_timestamp =
               SCANLINE_CYCLES * (last.timestamp \div SCANLINE_CYCLES)
        /\ 4 * SCANLINE_CYCLES = 456
        /\ 4 * SCANLINE_CYCLES * 154 = 70224

C22_Witness ==
    /\ last.kind = "render"
    /\ last.timestamp = 154 * SCANLINE_CYCLES
    /\ last.graphics.line_y = 153
    /\ graphics.line_y = 0
    /\ Ly(memory) = 0

\* C23: the VBlank interrupt (IF bit 0) is requested at the LY 143 -> 144
\* transition of every frame.
C23_VBlankRequested ==
    (last.kind = "render" /\ last.graphics.line_y = 143 /\ graphics.line_y = 144) =>
        VBlankRequested(memory)

\* C24: after every PPU step STAT bits 0-1 hold the current mode and STAT
\* bit 2 is set exactly when LY equals LYC, so it is clear again once LY
\* differs.
C24_StatMirrors ==
    last.kind = "render" =>
        /\ Stat(memory) % 4 = graphics.last_ppu_mode.num
        /\ get_memory_flag(Stat(memory), LYC_EQ_LY_FLAG) = (Ly(memory) = Lyc(memory))

\* the STAT interrupt line: the OR of the enabled sources that are active
StatLine(g, mem) ==
    \/ get_memory_flag(Stat(mem), MODE0_INT_FLAG) /\ g.last_ppu_mode.num = 0
    \/ get_memory_flag(Stat(mem), MODE1_INT_FLAG) /\ g.last_ppu_mode.num = 1
    \/ get_memory_flag(Stat(mem), MODE2_INT_FLAG) /\ g.last_ppu_mode.num = 2
    \/ get_memory_flag(Stat(mem), LCY_INT_FLAG) /\ g.line_y = Lyc(mem)

\* C25: the STAT interrupt (IF bit 1) is requested only on a rising edge of
\* the STAT line: a PPU step sets the bit only if the line was low before
\* the step and is high after it.
C25_StatRisingEdge ==
    (last.kind = "render" /\ ~StatRequested(last.memory) /\ StatRequested(memory)) =>
        (~StatLine(last.graphics, last.memory) /\ StatLine(graphics, memory))

\* C26: while LCDC bit 7 is 0 the PPU is frozen: LY stays 0, the mode bits
\* of STAT read 0 and no VBlank or STAT interrupt is requested.
C26_LcdOffFrozen ==
    (last.kind = "render" /\ ~get_memory_flag(Lcdc(memory), LCDC_ENABLE_FLAG)) =>
        /\ graphics.line_y = 0
        /\ Ly(memory) = 0
        /\ Stat(memory) % 4 = 0
        /\ ~VBlankRequested(memory)
        /\ ~StatRequested(memory)

----------------------------------------------------------------------------
(* gb.rs: GameBoy::run, one iteration of the loop with the debugger and    *)
(* the window: the event poll (only with graphics), the debugger gate, the *)
(* instruction, the serial output and the render.  Breakpoints are those   *)
(* the add_breakpoint calls at the head of run install.  The time stamp    *)
(* handed to render advances with every executed instruction by its        *)
(* length in machine cycles.                                               *)

EventSamples == {"None", "P", "RightBracket", "Q", "A"}
ProgramSamples == {<<4, 0, 4, 0>>, <<0, 211, 0, 0>>}
BreakpointSamples ==
    {Breakpoint("Addr", Ins("-"), 256), Breakpoint("Addr", Ins("-"), 257),
     Breakpoint("Inst", InsR("INC_R", "B"), 0)}

\* the iteration: what the gate answered ("paused", "passed", "panicked",
\* or "-" when the loop returned before it), the state it started from,
\* the polled event and the debugger after the event, before the gate
LoopObserved(kind, gate, c, mem, clk, g, d, event, entered, timestamp) ==
    [kind |-> kind, gate |-> gate, cpu |-> c, memory |-> mem, clock |-> clk,
     graphics |-> g, dbg |-> d, event |-> event, entered |-> entered,
     timestamp |-> timestamp]

\* the match on the polled event
handle_event(d, event) ==
    CASE event = "P" -> toggle_pause(d)
      [] event = "RightBracket" -> toggle_step(d)
      [] OTHER -> d

\* the part of the iteration after the gate let it through
ExecuteIteration(event, entered, gate, cycles) ==
    \E x \in {execute(cpu, memory)} :
    \E i \in {handle_interrupts(x.cpu, x.memory)} :
    \E r \in {IF graphics.some
              THEN render(graphics, serial_output(i.memory), last.timestamp + cycles)
              ELSE [panic |-> FALSE, graphics |-> graphics,
                    memory |-> serial_output(i.memory)]} :
        /\ status' = IF x.panic \/ r.panic THEN "panicked" ELSE "running"
        /\ cpu' = IF x.panic THEN cpu ELSE i.cpu
        /\ memory' = IF x.panic THEN memory ELSE r.memory
        /\ graphics' = IF x.panic THEN graphics ELSE r.graphics
        /\ dbg' = gate.dbg
        /\ last' = LoopObserved(IF x.panic \/ r.panic THEN "panic" ELSE "run",
                                "passed", cpu, memory, clock, graphics, dbg, event,
                                entered, last.timestamp + cycles)

LoopIteration ==
    /\ status = "running"
    /\ steps < MaxSteps
    /\ \E event \in (IF graphics.some THEN EventSamples ELSE {"None"}) :
       \E entered \in {handle_event(dbg, event)} :
       \E gate \in {check_pause(entered, cpu, memory)} :
           IF event = "Q"
           THEN /\ status' = "returned"
                /\ last' = LoopObserved("return", "-", cpu, memory, clock, graphics,
                                        dbg, event, dbg, last.timestamp)
                /\ UNCHANGED <<cpu, memory, graphics, dbg>>
           ELSE IF gate.panic
           THEN /\ status' = "panicked"
                /\ dbg' = entered
                /\ last' = LoopObserved("panic", "panicked", cpu, memory, clock,
                                        graphics, dbg, event, entered, last.timestamp)
                /\ UNCHANGED <<cpu, memory, graphics>>
           ELSE IF gate.paused
           THEN /\ status' = "running"
                /\ dbg' = gate.dbg
                /\ last' = LoopObserved("continue", "paused", cpu, memory, clock,
                                        graphics, dbg, event, entered, last.timestamp)
                /\ UNCHANGED <<cpu, memory, graphics>>
           ELSE \E cycles \in AdvanceSamples : ExecuteIteration(event, entered, gate, cycles)
    /\ steps' = steps + 1
    /\ UNCHANGED <<clock, joypad, overflow_checks>>

InitDebugger ==
    /\ overflow_checks \in BOOLEAN
    /\ cpu = [new_cpu EXCEPT !.pc = 256]
    /\ \E program \in ProgramSamples : memory = write_bytes(new_memory, 256, program)
    /\ clock = new_clock
    /\ joypad = new_joypad
    /\ graphics \in {NoGraphics, new_graphics}
    /\ dbg \in {new_debugger} \cup
                {add_breakpoint(new_debugger, b) : b \in BreakpointSamples}
    /\ status = "running"
    /\ last = LoopObserved("none", "-", cpu, memory, clock, graphics, dbg, "None",
                           dbg, 0)
    /\ steps = 0

SpecDebugger == InitDebugger /\ [][LoopIteration]_vars

\* an iteration that reached the debugger gate
ReachedGate == last.kind \in {"run", "panic", "continue"}

\* the instruction at the pc the iteration started from is on a breakpoint
OnBreakpoint ==
    LET sized == decode(last.memory, last.cpu.pc)
    IN  /\ ~sized.panic
        /\ sized.some
        /\ \/ Breakpoint("Inst", sized.instruction, 0) \in last.dbg.breakpoints
           \/ Breakpoint("Addr", Ins("-"), last.cpu.pc) \in last.dbg.breakpoints

\* the gate has to report paused: the pause flag is set after the event, or
\* no step is pending and the instruction is on a breakpoint
GateReportsPaused ==
    \/ last.entered.pause
    \/ ~last.entered.step /\ OnBreakpoint

\* C27: while the debugger gate reports paused, a loop iteration executes
\* no instruction and leaves the CPU, the memory, the clock and the PPU
\* unchanged; the pause flag changes only through toggle_pause, toggle_step,
\* a consumed step or a breakpoint hit.
C27_PausedIterationIdle ==
    /\ (ReachedGate /\ GateReportsPaused) =>
           /\ last.gate = "paused"
           /\ cpu = last.cpu
           /\ memory = last.memory
           /\ clock = last.clock
           /\ graphics = last.graphics
    /\ (last.kind # "none" /\ dbg.pause # last.dbg.pause) =>
           \/ last.event \in {"P", "RightBracket"}
           \/ last.entered.step
           \/ OnBreakpoint

C27_Witness ==
    /\ last.kind = "continue"
    /\ last.event = "None"
    /\ last.dbg.pause
    /\ graphics.some
    /\ cpu.pc = 257
    /\ steps = 3

\* C28: toggle_step, from a paused or a running emulator, lets exactly one
\* loop iteration through the gate and leaves the emulator paused with step
\* cleared, also when the stepped instruction is on a breakpoint; the next
\* iteration without a debugger key does not pass the gate.
C28_StepRunsOne ==
    /\ (ReachedGate /\ last.event = "RightBracket") =>
           /\ last.gate = "passed"
           /\ dbg.pause
           /\ ~dbg.step
    /\ (ReachedGate /\ last.dbg.pause /\ ~last.dbg.step
            /\ last.event \notin {"P", "RightBracket"}) =>
           last.gate = "paused"

C28_Witness ==
    /\ last.kind = "run"
    /\ last.event = "RightBracket"
    /\ last.dbg.pause
    /\ OnBreakpoint
    /\ cpu.pc = last.cpu.pc + 1
    /\ cpu.b = 1
    /\ dbg.pause
    /\ ~dbg.step

----------------------------------------------------------------------------
(* C31: mode windows *)

\* machine cycles elapsed on the current scanline at the last render
LineCycle == last.timestamp - graphics.last_timestamp

\* C31: on the visible lines (LY 0-143) the PPU reports mode 2 exactly
\* during machine cycles 0-19 of the line (dots 0-79), then mode 3 and
\* mode 0; on LY 144-153 it reports mode 1.
C31_ModeWindows ==
    last.kind = "render" =>
        /\ Stat(memory) % 4 = graphics.last_ppu_mode.num
        /\ graphics.line_y <= 143 =>
               /\ (graphics.last_ppu_mode.num = 2) = (LineCycle <= 19)
               /\ LineCycle >= 20 => graphics.last_ppu_mode.num \in {3, 0}
        /\ graphics.line_y >= 144 => graphics.last_ppu_mode.num = 1

----------------------------------------------------------------------------
(* The background FIFO on its own: the Mode2 -> Mode3 arm of render taken  *)
(* call by call, bg_fifo.next_line(memory) and then SCREEN_WIDTH times     *)
(* bg_fifo.pop(memory), on the first lines of a frame, for the sampled     *)
(* scroll, window and LCDC settings and a tile number at the head of both  *)
(* tile maps.                                                              *)

MaxFifoLines == 2
ScrollXSamples == {0, 1, 100, 255}
ScrollYSamples == {0, 255}
\* <<WX, WY>>
WindowSamples == {<<7, 0>>, <<87, 1>>, <<200, 200>>}
LcdcSamples == {145, 129, 153, 177, 241}
TileNumberSamples == {1, 128}

\* the call, the FIFO and the memory it started from
FifoObserved(kind, f, mem) == [kind |-> kind, bg_fifo |-> f, memory |-> mem]

FifoStep(kind, f) ==
    /\ status' = IF f.panic THEN "panicked" ELSE "running"
    /\ graphics' = [graphics EXCEPT !.bg_fifo = f]
    /\ last' = FifoObserved(IF f.panic THEN "panic" ELSE kind, graphics.bg_fifo, memory)
    /\ UNCHANGED <<cpu, memory, clock, joypad, dbg, overflow_checks, steps>>

FifoNextLine ==
    /\ status = "running"
    /\ ~graphics.bg_fifo.initialized \/ graphics.bg_fifo.screen_pos.x = SCREEN_WIDTH
    /\ graphics.bg_fifo.initialized => graphics.bg_fifo.screen_pos.y + 1 < MaxFifoLines
    /\ FifoStep("next_line", next_line(graphics.bg_fifo, memory))

FifoPop ==
    /\ status = "running"
    /\ graphics.bg_fifo.initialized
    /\ graphics.bg_fifo.screen_pos.x < SCREEN_WIDTH
    /\ FifoStep("pop", pop(graphics.bg_fifo, memory))

InitFifo ==
    /\ overflow_checks \in BOOLEAN
    /\ cpu = new_cpu
    /\ \E scx \in ScrollXSamples, scy \in ScrollYSamples, window \in WindowSamples,
          lcdc \in LcdcSamples, tile \in TileNumberSamples :
          memory = write_bytes(write_bytes(write_byte(write_byte(write_byte(
                       new_memory, 38912, tile), 39936, tile), LCDC_ADDRESS, lcdc),
                       SCY_ADDRESS, <<scy, scx>>),
                       WY_ADDRESS, <<window[2], window[1]>>)
    /\ clock = new_clock
    /\ joypad = new_joypad
    /\ graphics = new_graphics
    /\ dbg = new_debugger
    /\ status = "running"
    /\ last = FifoObserved("none", graphics.bg_fifo, memory)
    /\ steps = 0

NextFifo == FifoNextLine \/ FifoPop

SpecFifo == InitFifo /\ [][NextFifo]_vars

\* the scroll and LCDC registers, in a memory
Scx(mem) == read_byte_unsafe(mem, SCX_ADDRESS)
Scy(mem) == read_byte_unsafe(mem, SCY_ADDRESS)

\* the tile number the map holds for a map coordinate
TileNumber(mem, map, x, y) == read_byte_unsafe(mem, map + (x \div 8) + 32 * (y \div 8))

\* where the data of tile number t is, by LCDC bit 4
TileData(mem, t) ==
    IF get_memory_flag(Lcdc(mem), BGW_TILES_DATA_FLAG) THEN 32768 + 16 * t
    ELSE 36864 + 16 * (IF t < 128 THEN t ELSE t - 256)

\* C32: the background fetcher reads the data of tile number t at
\* 0x8000 + 16 * t when LCDC bit 4 is 1 and at 0x9000 + 16 * s, s being t as
\* a signed byte, when it is 0; its tile map is at 0x9C00 when LCDC bit 3 is
\* 1 and at 0x9800 otherwise.
C32_TileAddressing ==
    (last.kind \in {"next_line", "pop"} /\ ~graphics.bg_fifo.in_window) =>
        \A k \in DOMAIN graphics.bg_fifo.fifo :
            LET pixel == graphics.bg_fifo.fifo[k]
            IN  /\ pixel.map = (IF get_memory_flag(Lcdc(memory), BG_TILE_MAP_FLAG)
                                THEN 39936 ELSE 38912)
                /\ pixel.tile = TileData(memory,
                                         TileNumber(memory, pixel.map, pixel.x, pixel.y))

\* C34: while a line is drawn the background FIFO is never empty when a
\* pixel is popped and never holds more than 16 pixels: no call panics,
\* after every call (each ends with a fetch) the queue holds 8 to 15 pixels,
\* and the SCREEN_WIDTH pops of a line end at column 160.
C34_FifoLength ==
    /\ last.kind # "panic"
    /\ last.kind \in {"next_line", "pop"} =>
           /\ Len(graphics.bg_fifo.fifo) >= 8
           /\ Len(graphics.bg_fifo.fifo) <= 15
           /\ graphics.bg_fifo.screen_pos.x <= SCREEN_WIDTH
    /\ last.kind = "next_line" => graphics.bg_fifo.screen_pos.x = 0
    /\ last.kind = "pop" =>
           /\ last.bg_fifo.fifo # << >>
           /\ graphics.bg_fifo.screen_pos.x = last.bg_fifo.screen_pos.x + 1

C34_Witness ==
    /\ last.kind = "pop"
    /\ graphics.bg_fifo.screen_pos = [x |-> SCREEN_WIDTH, y |-> 1]
    /\ graphics.bg_fifo.in_window
    /\ read_byte_unsafe(memory, WX_ADDRESS) = 87
    /\ Scx(memory) = 1
    /\ Len(graphics.bg_fifo.fifo) >= 8

\* C39: outside the window the pixel popped for screen column x of line LY
\* is the pixel at background-map coordinate ((x + SCX) mod 256,
\* (LY + SCY) mod 256), so the tile-map index is in 0..1023.
C39_ScrollWraps ==
    (last.kind = "pop" /\ ~enter_window(last.bg_fifo, last.memory).in_window) =>
        LET pixel == Head(last.bg_fifo.fifo)
        IN  /\ pixel.x = (last.bg_fifo.screen_pos.x + Scx(memory)) % 256
            /\ pixel.y = (last.bg_fifo.screen_pos.y + Scy(memory)) % 256
            /\ (pixel.x \div 8) + 32 * (pixel.y \div 8) \in 0..1023

----------------------------------------------------------------------------
(* The PPU rendered at a pace: Graphics::render(memory, timestamp) called  *)
(* with time stamps at most 20 machine cycles apart, the length of the OAM *)
(* scan, over more than one frame.                                         *)

PacedSamples == {5, 20}

RenderPaced ==
    /\ status = "running"
    /\ \E cycles \in PacedSamples :
          /\ last.timestamp + cycles <= MaxTimestamp
          /\ \E x \in {render(graphics, memory, last.timestamp + cycles)} :
                /\ status' = IF x.panic THEN "panicked" ELSE "running"
                /\ graphics' = x.graphics
                /\ memory' = x.memory
                /\ last' = GraphicsObserved(IF x.panic THEN "panic" ELSE "render",
                                            graphics, memory, last.timestamp + cycles)
    /\ UNCHANGED <<cpu, clock, joypad, dbg, overflow_checks, steps>>

NextPaced == RenderPaced

SpecPaced == InitGraphics /\ [][NextPaced]_vars

\* the mode change of the last render: from mode a on line l to mode b on line m
ModeChange(a, l, b, m) ==
    /\ last.graphics.last_ppu_mode = PPUMode(a, l)
    /\ graphics.last_ppu_mode = PPUMode(b, m)

\* C35: with render called at most 20 machine cycles apart the PPU mode
\* only stays, or goes 2 -> 3 -> 0 on one line, 0 -> 2 to the next line,
\* 0 -> 1 from line 143 to 144, 1 -> 1 through the VBlank lines and 1 -> 2
\* from line 153 to line 0; neither the 'PPU Transition Error' panic nor the
\* assertion on clock_diff is reached.
C35_LegalTransitions ==
    /\ last.kind # "panic"
    /\ status = "running"
    /\ last.kind = "render" =>
           \/ graphics.last_ppu_mode = last.graphics.last_ppu_mode
           \/ \E l \in 0..143 : ModeChange(2, l, 3, l) \/ ModeChange(3, l, 0, l)
           \/ \E l \in 0..142 : ModeChange(0, l, 2, l + 1)
           \/ ModeChange(0, 143, 1, 144)
           \/ \E l \in 144..152 : ModeChange(1, l, 1, l + 1)
           \/ ModeChange(1, 153, 2, 0)

C35_Witness ==
    /\ last.kind = "render"
    /\ last.timestamp >= 154 * SCANLINE_CYCLES
    /\ ModeChange(1, 153, 2, 0)

\* C36: with render called at most 20 machine cycles apart and no write to
\* LY by the program, after every render the LY register is the line counter
\* and is in 0..153, and during the pixel transfer (mode 3) the row of the
\* background fetcher is that line.
C36_LineCounters ==
    last.kind = "render" =>
        /\ Ly(memory) = graphics.line_y
        /\ graphics.line_y \in 0..153
        /\ graphics.last_ppu_mode.num = 3 =>
               /\ graphics.last_ppu_mode.line = graphics.line_y
               /\ graphics.bg_fifo.screen_pos.y = graphics.line_y

C36_Witness ==
    /\ last.kind = "render"
    /\ last.timestamp > 154 * SCANLINE_CYCLES
    /\ graphics.last_ppu_mode = PPUMode(3, 0)
    /\ graphics.bg_fifo.screen_pos.y = 0
    /\ last.graphics.bg_fifo.initialized = FALSE

----------------------------------------------------------------------------
(* The stack instructions in pairs: a program that is CALL nn or CALL cc,nn *)
(* with RET at nn, or PUSH rr followed by a POP, run through the loop of    *)
(* GameBoy::run, with the stack in work RAM, wrapping below address 0, and  *)
(* on top of the program itself.  The observation also keeps the one before *)
(* it.                                                                      *)

\* <<pc, sp>>
StackStartSamples == {<<256, 53248>>, <<512, 1>>, <<512, 514>>, <<65533, 65534>>}
CallOpcodes == {205, 196, 204, 212, 220}
CallTargetSamples == {336, 49393}
PushOpcodes == {197, 213, 229, 245}
PopOpcodes == {193, 209, 225, 241}
StackFlagSamples == {0, 144, 95}

\* the bytes at pc and the byte at target
StackPrograms ==
    {<<(<<call, get_low(nn), get_high(nn)>>), nn, 201>> :
         call \in CallOpcodes, nn \in CallTargetSamples}
    \cup {<<(<<push, pop_>>), 0, 0>> : push \in PushOpcodes, pop_ \in PopOpcodes}

StackObserved(kind, c, mem, sized, mid, earlier) ==
    [kind |-> kind, cpu |-> c, memory |-> mem, sized |-> sized, mid |-> mid,
     earlier |-> [kind |-> earlier.kind, cpu |-> earlier.cpu, sized |-> earlier.sized]]

RunStack ==
    /\ status = "running"
    /\ steps < MaxSteps
    /\ \E x \in {execute(cpu, memory)} :
       \E i \in {handle_interrupts(x.cpu, x.memory)} :
           IF x.panic
           THEN /\ status' = "panicked"
                /\ UNCHANGED <<cpu, memory>>
                /\ last' = StackObserved("panic", cpu, memory, decode(memory, cpu.pc),
                                         cpu, last)
           ELSE /\ status' = "running"
                /\ cpu' = i.cpu
                /\ memory' = serial_output(i.memory)
                /\ last' = StackObserved("run", cpu, memory, decode(memory, cpu.pc),
                                         x.cpu, last)
    /\ steps' = steps + 1
    /\ UNCHANGED <<clock, joypad, graphics, dbg, overflow_checks>>

InitStack ==
    /\ overflow_checks \in BOOLEAN
    /\ \E program \in StackPrograms, flags \in StackFlagSamples,
          start \in StackStartSamples :
          /\ cpu = [new_cpu EXCEPT !.f = flags, !.pc = start[1], !.sp = start[2],
                                   !.a = 90, !.b = 1, !.c = 35, !.d = 69, !.e = 103,
                                   !.h = 192, !.l = 16]
          /\ memory = write_bytes(write_byte(new_memory, program[2], program[3]),
                                  start[1], program[1])
    /\ clock = new_clock
    /\ joypad = new_joypad
    /\ graphics = NoGraphics
    /\ dbg = new_debugger
    /\ status = "running"
    /\ last = StackObserved("none", cpu, memory, NoneDecoded({}), cpu,
                            [kind |-> "none", cpu |-> cpu, sized |-> NoneDecoded({})])
    /\ steps = 0

NextStack == RunStack

SpecStack == InitStack /\ [][NextStack]_vars

\* the observation before the last one
EarlierOp == last.earlier.sized.instruction.op
EarlierRan == last.earlier.kind = "run"
EarlierCalled ==
    /\ EarlierRan
    /\ \/ EarlierOp = "CALL"
       \/ /\ EarlierOp = "CALL_CC"
          /\ get_condition(last.earlier.cpu, last.earlier.sized.instruction.cc)

\* C33: CALL nn and a taken CALL cc write the address of the following
\* instruction, high byte at SP-1 and low byte at SP-2, and take 2 from SP;
\* a RET that follows sets PC to that address and SP to its value before
\* the CALL; PUSH rr followed by POP rr leaves rr and SP as they were.
C33_StackRoundTrip ==
    /\ (RanInstruction /\ (ObservedOp = "CALL" \/ (ObservedOp = "CALL_CC" /\ ConditionHeld))) =>
           /\ read_byte_unsafe(memory, (last.cpu.sp + 65535) % 65536)
                  = ((last.cpu.pc + 3) % 65536) \div 256
           /\ read_byte_unsafe(memory, (last.cpu.sp + 65534) % 65536)
                  = (last.cpu.pc + 3) % 256
           /\ cpu.sp = (last.cpu.sp + 65534) % 65536
           /\ cpu.pc = Imm16
    /\ (RanInstruction /\ ObservedOp = "RET" /\ EarlierCalled) =>
           /\ cpu.pc = (last.earlier.cpu.pc + 3) % 65536
           /\ cpu.sp = last.earlier.cpu.sp
    /\ (RanInstruction /\ ObservedOp = "POP" /\ EarlierRan /\ EarlierOp = "PUSH"
            /\ last.sized.instruction.rr = last.earlier.sized.instruction.rr) =>
           /\ get_register16(cpu, last.sized.instruction.rr)
                  = get_register16(last.earlier.cpu, last.sized.instruction.rr)
           /\ cpu.sp = last.earlier.cpu.sp

C33_Witness ==
    /\ RanInstruction
    /\ ObservedOp = "RET"
    /\ EarlierCalled
    /\ EarlierOp = "CALL_CC"
    /\ last.earlier.cpu.sp = 1
    /\ cpu.sp = 1
    /\ cpu.pc = 515

----------------------------------------------------------------------------
(* The joypad under longer key sequences: presses and releases of two      *)
(* recognized keys and one other key (Joypad::handle_button) and register  *)
(* refreshes (Joypad::update), four operations long.                       *)

MaxEvents == 4
KeySamples == {"A", "K", "Escape"}

KeyEvent ==
    /\ steps < MaxEvents
    /\ \E keycode \in KeySamples, down \in BOOLEAN :
          \E x \in {handle_button(joypad, keycode, down, memory)} :
              /\ joypad' = x.joypad
              /\ memory' = x.memory
              /\ last' = JoypadObserved("handle_button", joypad, memory, keycode,
                                        down, 0,
                                        IF down THEN last.held \cup {keycode}
                                        ELSE last.held \ {keycode},
                                        keycode \in last.held)
    /\ steps' = steps + 1
    /\ UNCHANGED <<cpu, clock, graphics, dbg, overflow_checks, status>>

KeyUpdate ==
    /\ steps < MaxEvents
    /\ memory' = update(joypad, memory)
    /\ last' = JoypadObserved("update", joypad, memory, "None", FALSE, 0,
                              last.held, FALSE)
    /\ steps' = steps + 1
    /\ UNCHANGED <<cpu, clock, joypad, graphics, dbg, overflow_checks, status>>

NextKeys == KeyEvent \/ KeyUpdate

SpecKeys == InitJoypad /\ [][NextKeys]_vars

\* C38: whenever a recognized button is physically held, the joypad update
\* reports a pressed button (a low-nibble bit of 0xFF00 is 0), and when no
\* recognized button is held it writes 0xFF.
C38_HeldButtonReported ==
    last.kind = "update" =>
        IF last.held \cap GameKeys # {}
        THEN JoypadRegister(memory) % 16 # 15
        ELSE JoypadRegister(memory) = 255

----------------------------------------------------------------------------
(* C37 *)

----------------------------------------------------------------------------
(* C40 *)

\* the cycles of a second tick
AddendSamples == {1, 64, 190, 191}

\* C40: ticking is additive: a tick of a cycles followed by a tick of b
\* cycles leaves the clock (div_counter, timer_counter) and the memory (DIV,
\* TIMA, IF) as one tick of a + b cycles does, for a + b <= 255; with the
\* TAC enable bit clear a tick changes neither TIMA nor IF; after a tick
\* with the timer enabled timer_counter is below the selected period.
C40_TickAdditive ==
    last.kind = "tick" =>
        /\ \A b \in AddendSamples :
               last.cycles + b <= 255 =>
                   tick(clock, b, memory)
                       = tick(last.clock, last.cycles + b, last.memory)
        /\ ~TimerEnabled =>
               /\ Tima = read_byte_unsafe(last.memory, TIMA_ADDRESS)
               /\ read_byte_unsafe(memory, INTERRUPT_FLAG_ADDRESS)
                      = read_byte_unsafe(last.memory, INTERRUPT_FLAG_ADDRESS)
               /\ clock.timer_counter = last.clock.timer_counter
        /\ TimerEnabled => clock.timer_counter < TimaPeriod

C40_Witness ==
    /\ last.kind = "tick"
    /\ last.cycles = 64
    /\ Tac = 5
    /\ last.clock.div_counter = 1
    /\ Tima < read_byte_unsafe(last.memory, TIMA_ADDRESS)
    /\ tick(clock, 191, memory).memory[DIV_ADDRESS] = 1
    /\ tick(clock, 191, memory) = tick(last.clock, 255, last.memory)

====
